---- MODULE Spec2Model ----
(***************************************************************************)
(* Verification model of the hadith browsing frontend: the pagination      *)
(* strip (pagination-controls.tsx), the listing queries of the access      *)
(* layer (server/db/queries/hadiths.ts) and the views that turn the URL    *)
(* query string into query calls and back into links.                      *)
(***************************************************************************)
EXTENDS Integers, Sequences, FiniteSets, TLC

\* ---------------------------------------------------------------- bounds
MaxTotal == 10
MaxRows == 3      \* rows of the hadiths table in the listing-query machine
MaxPage == 3      \* page argument of a listing query
MaxLimit == 2     \* limit argument of a listing query
MaxPending == 2   \* facet fetches of the filter panel in flight at once

VARIABLES
  pgStep,        \* PaginationControls: "props" (props received) or "rendered"
  currentPage,   \* PaginationControls prop currentPage
  totalPages,    \* PaginationControls prop totalPages
  visiblePages,  \* const visiblePages = getVisiblePages()
  hadithsTable,  \* rows of table hadiths, in the order the store scans them
  qStep,         \* access layer: "idle" or "returned"
  qCall,         \* the listing call in progress: operation and arguments
  qResult,       \* what the call gave back to its caller
  url,           \* session: the URL the router is at (pathname and params)
  view,          \* session: what the page component rendered for url
  lastNav,       \* session: the last UI handler that ran
  formQuery,     \* SearchForm: the text in the search box (state `query`)
  filters,       \* HadithFilters: selectedSource/Book/Chapter, books, chapters
  pending,       \* HadithFilters: facet fetches awaiting their answer
  cardStep,      \* similar-hadith card: "record" (record received) or "rendered"
  similarity,    \* the record's optional field similarity
  badge          \* the percentage badge of the card, in tenths of a percent

pgVars == <<pgStep, currentPage, totalPages, visiblePages>>
qVars == <<qStep, qCall, qResult>>
navVars == <<url, view, lastNav, formQuery, filters, pending>>
cardVars == <<cardStep, similarity, badge>>

vars == <<pgStep, currentPage, totalPages, visiblePages,
          hadithsTable, qStep, qCall, qResult,
          url, view, lastNav, formQuery, filters, pending,
          cardStep, similarity, badge>>

\* ------------------------------------------------------------- utilities
Max(a, b) == IF a >= b THEN a ELSE b
Min(a, b) == IF a <= b THEN a ELSE b

\* --------------------------------------------- JavaScript values in use
\* A string is a sequence of one-character strings. A value of type
\* `string | undefined` (a query-string key, an optional prop) is a record
\* with a presence flag; a value of type `number | undefined` is a tagged
\* record so that NaN and undefined stay apart from the integers.
Str(s) == [present |-> TRUE, s |-> s]
NoStr == [present |-> FALSE, s |-> <<>>]

Num(i) == [t |-> "num", n |-> i]
NaN == [t |-> "NaN", n |-> 0]
Undefined == [t |-> "undefined", n |-> 0]

\* Truthiness of `number | undefined`: undefined, NaN and 0 are falsy.
TruthyNum(v) == v.t = "num" /\ v.n # 0

\* Truthiness of `string | undefined`: undefined and "" are falsy.
TruthyStr(v) == v.present /\ Len(v.s) > 0

DigitChars == <<"0", "1", "2", "3", "4", "5", "6", "7", "8", "9">>

IsDigit(c) == \E d \in 1..10 : DigitChars[d] = c

DigitValue(c) == (CHOOSE d \in 1..10 : DigitChars[d] = c) - 1

\* Number.prototype.toString() of a non-negative integer
RECURSIVE Decimal(_)
Decimal(i) ==
  IF i < 10 THEN <<DigitChars[i + 1]>>
  ELSE Decimal(i \div 10) \o <<DigitChars[(i % 10) + 1]>>

\* Number.prototype.toString(): "NaN", or the decimal digits with a sign
NumberToString(v) ==
  IF v.t = "NaN" THEN <<"N", "a", "N">>
  ELSE IF v.n < 0 THEN <<"-">> \o Decimal(0 - v.n)
  ELSE Decimal(v.n)

\* parseInt(string): leading blanks are skipped, then an optional sign, then
\* the longest run of decimal digits; no digit at all gives NaN.
RECURSIVE SkipBlanks(_)
SkipBlanks(s) ==
  IF Len(s) > 0 /\ Head(s) = " " THEN SkipBlanks(Tail(s)) ELSE s

RECURSIVE DigitRun(_)
DigitRun(s) ==
  IF Len(s) > 0 /\ IsDigit(Head(s)) THEN <<Head(s)>> \o DigitRun(Tail(s))
  ELSE <<>>

RECURSIVE DigitsValue(_, _)
DigitsValue(ds, acc) ==
  IF Len(ds) = 0 THEN acc
  ELSE DigitsValue(Tail(ds), acc * 10 + DigitValue(Head(ds)))

parseInt(s) ==
  LET t == SkipBlanks(s)
      negative == Len(t) > 0 /\ Head(t) = "-"
      signed == Len(t) > 0 /\ (Head(t) = "-" \/ Head(t) = "+")
      body == IF signed THEN Tail(t) ELSE t
      ds == DigitRun(body)
  IN  IF Len(ds) = 0 THEN NaN
      ELSE Num(IF negative THEN 0 - DigitsValue(ds, 0) ELSE DigitsValue(ds, 0))

\* ------------------------------------------------------ URLs and params
\* The query string, at the level of URLSearchParams / Next's searchParams:
\* one optional string per recognised key. (Percent-encoding is done by
\* URLSearchParams.toString / encodeURIComponent and undone by the router.)
\* id is the dynamic segment of /hadiths/[id], which Next hands to the page
\* as params.id.
NoParams ==
  [q |-> NoStr, source |-> NoStr, book |-> NoStr, chapter |-> NoStr,
   hadith |-> NoStr, page |-> NoStr, id |-> NoStr]

\* params.set(key, value)
ParamSet(params, key, value) == [params EXCEPT ![key] = Str(value)]

\* params.delete(key)
ParamDelete(params, key) == [params EXCEPT ![key] = NoStr]

Url(path, params) == [path |-> path, params |-> params]

\* searchParams.key ? parseInt(searchParams.key) : undefined
ParseOptionalInt(v) == IF TruthyStr(v) THEN parseInt(v.s) ELSE Undefined

\* searchParams.page ? parseInt(searchParams.page) : 1
ParsePage(v) == IF TruthyStr(v) THEN parseInt(v.s) ELSE Num(1)

\* ------------------------------------------------- store: table hadiths
\* A row of table hadiths, projected on the columns the queries filter on
\* (schema.ts: id, source_id, book, chapter are integer NOT NULL).
SourceIds == {1, 2}
BookNumbers == {0, 1}
ChapterNumbers == {1, 2}

Row(id, s, b, c) == [id |-> id, source_id |-> s, book |-> b, chapter |-> c]

RowColumns == [source_id : SourceIds, book : BookNumbers, chapter : ChapterNumbers]

\* id is a serial primary key: the i-th inserted row has id i.
WithIds(cols) ==
  [i \in DOMAIN cols |->
     Row(i, cols[i].source_id, cols[i].book, cols[i].chapter)]

SmallTables ==
  {WithIds(cols) : cols \in UNION {[1..n -> RowColumns] : n \in 0..MaxRows}}

\* ------------------------------------------------------ listing queries
NoCall == [op |-> "none"]
NoResult == [status |-> "none"]

\* Faulty variant: the offset of page p taken as p * limit.
Offset_pageTimesLimit(page, limit) == page * limit

\* const offset = (page - 1) * limit
Offset(page, limit) == (page - 1) * limit

\* .limit(limit).offset(offset) on the rows a select yields. The store
\* refuses a negative OFFSET or LIMIT; StoreAccepts is that check.
StoreAccepts(limit, offset) == limit >= 0 /\ offset >= 0

\* Faulty variant: the window taken one row too long.
LimitOffset_oneMore(rows, limit, offset) ==
  SubSeq(rows, offset + 1, Min(Len(rows), offset + limit + 1))

LimitOffset(rows, limit, offset) ==
  SubSeq(rows, offset + 1, Min(Len(rows), offset + limit))

\* where(eq(hadiths.source_id, sourceId)) and its and(...) extensions
WhereSource(rows, sourceId) ==
  SelectSeq(rows, LAMBDA r : r.source_id = sourceId)

WhereBook(rows, sourceId, book) ==
  SelectSeq(rows, LAMBDA r : r.source_id = sourceId /\ r.book = book)

WhereChapter(rows, sourceId, book, chapter) ==
  SelectSeq(rows, LAMBDA r : r.source_id = sourceId /\ r.book = book
                              /\ r.chapter = chapter)

\* Number(countResult[0]?.count || 0) of select count(*) over the rows
CountRows(rows) == Len(rows)

\* return { hadiths, totalCount, page, limit }
ResultPage(records, count, page, limit) ==
  [status |-> "ok", hadiths |-> records, totalCount |-> count,
   page |-> page, limit |-> limit]

\* catch (error) { throw new Error('Failed to fetch ...') }
Thrown(message) == [status |-> "error", message |-> message]

\* Faulty variant: a store error answered with an empty page.
ListingBody_emptyOnFailure(matching, page, limit, storeFails, message) ==
  IF storeFails \/ ~StoreAccepts(limit, Offset(page, limit))
  THEN ResultPage(<<>>, 0, page, limit)
  ELSE ResultPage(LimitOffset(matching, limit, Offset(page, limit)),
                  CountRows(matching), page, limit)

\* The body of a listing function over the rows its where clause selects:
\* both selects run inside one try block, and a store error in either
\* becomes the function's own Error.
ListingBody(matching, page, limit, storeFails, message) ==
  IF storeFails \/ ~StoreAccepts(limit, Offset(page, limit))
  THEN Thrown(message)
  ELSE ResultPage(LimitOffset(matching, limit, Offset(page, limit)),
                  CountRows(matching), page, limit)

getHadiths(table, page, limit, storeFails) ==
  ListingBody(table, page, limit, storeFails, "Failed to fetch hadiths")

\* Faulty variant: the count query without its where clause.
getHadithsBySource_countAll(table, sourceId, page, limit, storeFails) ==
  IF storeFails \/ ~StoreAccepts(limit, Offset(page, limit))
  THEN Thrown("Failed to fetch hadiths by source")
  ELSE ResultPage(LimitOffset(WhereSource(table, sourceId), limit,
                              Offset(page, limit)),
                  CountRows(table), page, limit)

getHadithsBySource(table, sourceId, page, limit, storeFails) ==
  ListingBody(WhereSource(table, sourceId), page, limit, storeFails,
              "Failed to fetch hadiths by source")

getHadithsByBook(table, sourceId, book, page, limit, storeFails) ==
  ListingBody(WhereBook(table, sourceId, book), page, limit, storeFails,
              "Failed to fetch hadiths by book")

getHadithsByChapter(table, sourceId, book, chapter, page, limit, storeFails) ==
  ListingBody(WhereChapter(table, sourceId, book, chapter), page, limit,
              storeFails, "Failed to fetch hadiths by chapter")

\* ------------------------------------------------ getVisiblePages (pure)
\* An entry of the (number | null)[] array: null is the ellipsis marker.
PageEntry(i) == [ellipsis |-> FALSE, page |-> i]
Ellipsis == [ellipsis |-> TRUE, page |-> 0]

\* Faulty variant: a window of two pages on each side.
delta_two == 1 + 1

delta == 1

\* Faulty variant: the window opened at the current page.
rangeStart_fromCurrent(cur) == Max(2, cur)

\* rangeStart = Math.max(2, currentPage - delta)
rangeStart(cur) == Max(2, cur - delta)

\* Faulty variants of rangeEnd: the clip to totalPages - 1 forgotten, and the
\* clip taken at totalPages instead of totalPages - 1.
rangeEnd_noClip(cur, total) == cur + 1

rangeEnd_clipAtTotal(cur, total) == Min(total, cur + 1)

\* rangeEnd = Math.min(totalPages - 1, currentPage + delta)
rangeEnd(cur, total) == Min(total - 1, cur + delta)

\* for (let i = rangeStart; i <= rangeEnd; i++) range.push(i)
RECURSIVE PushRange(_, _)
PushRange(i, hi) ==
  IF i > hi THEN <<>> ELSE <<PageEntry(i)>> \o PushRange(i + 1, hi)

\* Faulty variants of getVisiblePages: one ellipsis pushed per hidden page
\* instead of one per gap, and the last page pushed only from three pages on.
RECURSIVE Ellipses(_)
Ellipses(n) == IF n <= 0 THEN <<>> ELSE <<Ellipsis>> \o Ellipses(n - 1)

getVisiblePages_ellipsisPerPage(cur, total) ==
  LET start == rangeStart(cur)
      end   == rangeEnd(cur, total)
  IN  <<PageEntry(1)>>
      \o Ellipses(start - 2)
      \o PushRange(start, end)
      \o Ellipses(total - 1 - end)
      \o (IF total > 1 THEN <<PageEntry(total)>> ELSE <<>>)

getVisiblePages_lastFromThree(cur, total) ==
  LET start == rangeStart(cur)
      end   == rangeEnd(cur, total)
  IN  <<PageEntry(1)>>
      \o (IF start > 2 THEN <<Ellipsis>> ELSE <<>>)
      \o PushRange(start, end)
      \o (IF end < total - 1 THEN <<Ellipsis>> ELSE <<>>)
      \o (IF total > 2 THEN <<PageEntry(total)>> ELSE <<>>)

\* Faulty variant: the leading ellipsis only for two or more hidden pages.
getVisiblePages_ellipsisFromThree(cur, total) ==
  LET start == rangeStart(cur)
      end   == rangeEnd(cur, total)
  IN  <<PageEntry(1)>>
      \o (IF start > 3 THEN <<Ellipsis>> ELSE <<>>)
      \o PushRange(start, end)
      \o (IF end < total - 1 THEN <<Ellipsis>> ELSE <<>>)
      \o (IF total > 1 THEN <<PageEntry(total)>> ELSE <<>>)

getVisiblePages(cur, total) ==
  LET start == rangeStart(cur)
      end   == rangeEnd(cur, total)
  IN  <<PageEntry(1)>>
      \o (IF start > 2 THEN <<Ellipsis>> ELSE <<>>)
      \o PushRange(start, end)
      \o (IF end < total - 1 THEN <<Ellipsis>> ELSE <<>>)
      \o (IF total > 1 THEN <<PageEntry(total)>> ELSE <<>>)

\* --------------------------------------------------- facet enumeration
\* orderBy(asc(column)): the values in ascending order
RECURSIVE InsertAsc(_, _)
InsertAsc(x, sorted) ==
  IF Len(sorted) = 0 THEN <<x>>
  ELSE IF x <= Head(sorted) THEN <<x>> \o sorted
  ELSE <<Head(sorted)>> \o InsertAsc(x, Tail(sorted))

RECURSIVE OrderAsc(_)
OrderAsc(values) ==
  IF Len(values) = 0 THEN <<>>
  ELSE InsertAsc(Head(values), OrderAsc(Tail(values)))

\* [...new Set(values)]: first occurrences, in order
RECURSIVE Unique(_, _)
Unique(values, seen) ==
  IF Len(values) = 0 THEN <<>>
  ELSE IF Head(values) \in seen THEN Unique(Tail(values), seen)
  ELSE <<Head(values)>> \o Unique(Tail(values), seen \cup {Head(values)})

Facet(values) == [status |-> "ok", values |-> values]

getBooksBySource(table, sourceId, storeFails) ==
  IF storeFails THEN Thrown("Failed to fetch books")
  ELSE LET rows == WhereSource(table, sourceId)
       IN  Facet(Unique(OrderAsc([i \in DOMAIN rows |-> rows[i].book]), {}))

\* Faulty variant: the chapters without the orderBy clause.
getChaptersByBook_unordered(table, sourceId, book, storeFails) ==
  IF storeFails THEN Thrown("Failed to fetch chapters")
  ELSE LET rows == WhereBook(table, sourceId, book)
       IN  Facet(Unique([i \in DOMAIN rows |-> rows[i].chapter], {}))

getChaptersByBook(table, sourceId, book, storeFails) ==
  IF storeFails THEN Thrown("Failed to fetch chapters")
  ELSE LET rows == WhereBook(table, sourceId, book)
       IN  Facet(Unique(OrderAsc([i \in DOMAIN rows |-> rows[i].chapter]), {}))

\* ------------------------------------------- PaginationControls: links
\* The optional props of PaginationControls.
PaginationProps(cur, total, sourceId, book, chapter, query, hadithId, baseUrl) ==
  [currentPage |-> cur, totalPages |-> total, sourceId |-> sourceId,
   book |-> book, chapter |-> chapter, query |-> query,
   hadithId |-> hadithId, baseUrl |-> baseUrl]

NoBaseUrl == [present |-> FALSE, url |-> Url("", NoParams)]
BaseUrl(u) == [present |-> TRUE, url |-> u]

\* params.set(key, value.toString()) guarded by `value !== undefined`
SetIfDefined(params, key, v) ==
  IF v.t # "undefined" THEN ParamSet(params, key, NumberToString(v)) ELSE params

\* Faulty variant of getPageHref: the book key left out of the link.
getPageHref_dropsBook(props, pathname, page) ==
  IF props.baseUrl.present
  THEN Url(props.baseUrl.url.path,
           ParamSet(props.baseUrl.url.params, "page", NumberToString(Num(page))))
  ELSE LET p0 == ParamSet(NoParams, "page", NumberToString(Num(page)))
           p1 == IF props.query.present THEN ParamSet(p0, "q", props.query.s) ELSE p0
           p2 == SetIfDefined(p1, "source", props.sourceId)
           p4 == SetIfDefined(p2, "chapter", props.chapter)
           p5 == SetIfDefined(p4, "hadith", props.hadithId)
       IN  Url(pathname, p5)

getPageHref(props, pathname, page) ==
  IF props.baseUrl.present
  THEN Url(props.baseUrl.url.path,
           ParamSet(props.baseUrl.url.params, "page", NumberToString(Num(page))))
  ELSE LET p0 == ParamSet(NoParams, "page", NumberToString(Num(page)))
           p1 == IF props.query.present THEN ParamSet(p0, "q", props.query.s) ELSE p0
           p2 == SetIfDefined(p1, "source", props.sourceId)
           p3 == SetIfDefined(p2, "book", props.book)
           p4 == SetIfDefined(p3, "chapter", props.chapter)
           p5 == SetIfDefined(p4, "hadith", props.hadithId)
       IN  Url(pathname, p5)

\* The Previous button: a link when currentPage > 1, else a disabled span.
PreviousTargets(cur, total) == IF cur > 1 THEN {cur - 1} ELSE {}

\* Faulty variant: the Next button a link on every page.
NextTargets_always(cur, total) == {cur + 1}

\* The Next button: a link when currentPage < totalPages.
NextTargets(cur, total) == IF cur < total THEN {cur + 1} ELSE {}

\* The numbered buttons: a link for every listed page but the current one.
NumberTargets(cur, total) ==
  LET listed == getVisiblePages(cur, total)
  IN  {listed[i].page :
         i \in {j \in DOMAIN listed :
                  ~listed[j].ellipsis /\ listed[j].page # cur}}

\* The pages the strip links to: Previous, Next and every listed page
\* other than the current one.
PageLinkTargets(cur, total) ==
  PreviousTargets(cur, total) \cup NextTargets(cur, total)
    \cup NumberTargets(cur, total)

\* ----------------------------------------------------------- browse view
ViewLimit == 10

\* Math.ceil(totalCount / limit) for totalCount >= 0
Ceil(a, b) == (a + b - 1) \div b

\* What a page component rendered. outcome names the branch taken; the
\* props the page parsed from the URL are kept with it, and failed holds the
\* access-layer calls of the render that met a store or transport error:
\* "query" for a function on the store that throws (getSources and the
\* listing functions), "getHadithById" for the lookup, which returns null,
\* and the name of the remote client.
View(path, outcome, query, sourceId, book, chapter, hadithId, page, hadiths, totalCount, pagination, failed) ==
  [path |-> path, outcome |-> outcome, query |-> query, sourceId |-> sourceId,
   book |-> book, chapter |-> chapter, hadithId |-> hadithId, page |-> page,
   hadiths |-> hadiths, totalCount |-> totalCount,
   totalPages |-> Ceil(totalCount, ViewLimit), pagination |-> pagination,
   failed |-> failed]

NoView ==
  View("", "loading", NoStr, Undefined, Undefined, Undefined, Undefined,
       Undefined, <<>>, 0, FALSE, {})

\* The last UI handler that ran, the page it asked for (page links only) and
\* whether it called router.push.
Handler(by, page, pushed) == [by |-> by, page |-> page, pushed |-> pushed]

NoNav == Handler("load", 0, FALSE)

\* HadithsPage: the props parsed from searchParams
HadithsPage(params) ==
  [sourceId |-> ParseOptionalInt(params.source),
   book |-> ParseOptionalInt(params.book),
   chapter |-> ParseOptionalInt(params.chapter),
   page |-> ParsePage(params.page)]

\* Faulty variant: the filters chained without their parents, so that a book
\* or chapter filters the rows even when the collection or book is missing.
BrowseQuery_unnested(table, props, storeFails) ==
  LET pageFails == storeFails \/ props.page.t # "num"
      matching ==
        SelectSeq(table,
                  LAMBDA r :
                    /\ TruthyNum(props.sourceId) => r.source_id = props.sourceId.n
                    /\ TruthyNum(props.book) => r.book = props.book.n
                    /\ TruthyNum(props.chapter) => r.chapter = props.chapter.n)
  IN  ListingBody(matching, props.page.n, ViewLimit, pageFails,
                  "Failed to fetch hadiths")

\* HadithBrowser, lines 32-40: the listing function chosen by the truthiness
\* of the filters. A page that is NaN reaches the store as OFFSET NaN, which
\* the store refuses like any other malformed statement.
BrowseQuery(table, props, storeFails) ==
  LET pageFails == storeFails \/ props.page.t # "num"
  IN  IF TruthyNum(props.sourceId) /\ TruthyNum(props.book)
           /\ TruthyNum(props.chapter)
      THEN getHadithsByChapter(table, props.sourceId.n, props.book.n,
                               props.chapter.n, props.page.n, ViewLimit,
                               pageFails)
      ELSE IF TruthyNum(props.sourceId) /\ TruthyNum(props.book)
      THEN getHadithsByBook(table, props.sourceId.n, props.book.n,
                            props.page.n, ViewLimit, pageFails)
      ELSE IF TruthyNum(props.sourceId)
      THEN getHadithsBySource(table, props.sourceId.n, props.page.n,
                              ViewLimit, pageFails)
      ELSE getHadiths(table, props.page.n, ViewLimit, pageFails)

\* Faulty variant: the strip also under the empty-list message.
HadithBrowser_stripWhenEmpty(table, props, sourcesFail, storeFails) ==
  LET result == BrowseQuery(table, props, storeFails)
      shown(outcome, hadiths, count, strip, failed) ==
        View("/hadiths", outcome, NoStr, props.sourceId, props.book,
             props.chapter, Undefined, props.page, hadiths, count, strip,
             failed)
  IN  IF sourcesFail
      THEN shown("error", <<>>, 0, FALSE, {"query"})
      ELSE IF result.status = "error"
      THEN shown("error", <<>>, 0, FALSE, {"query"})
      ELSE shown(IF Len(result.hadiths) = 0 THEN "empty" ELSE "list",
                 result.hadiths, result.totalCount,
                 Ceil(result.totalCount, ViewLimit) > 1, {})

\* Faulty variant: the strip under every non-empty list.
HadithBrowser_alwaysStrip(table, props, sourcesFail, storeFails) ==
  LET result == BrowseQuery(table, props, storeFails)
      shown(outcome, hadiths, count, strip, failed) ==
        View("/hadiths", outcome, NoStr, props.sourceId, props.book,
             props.chapter, Undefined, props.page, hadiths, count, strip,
             failed)
  IN  IF sourcesFail
      THEN shown("error", <<>>, 0, FALSE, {"query"})
      ELSE IF result.status = "error"
      THEN shown("error", <<>>, 0, FALSE, {"query"})
      ELSE IF Len(result.hadiths) = 0
      THEN shown("empty", <<>>, result.totalCount, FALSE, {})
      ELSE shown("list", result.hadiths, result.totalCount, TRUE, {})

\* HadithBrowser: getSources and the listing call inside one try block, then
\* the empty-list message, or the cards with the strip when totalPages > 1.
HadithBrowser(table, props, sourcesFail, storeFails) ==
  LET result == BrowseQuery(table, props, storeFails)
      shown(outcome, hadiths, count, strip, failed) ==
        View("/hadiths", outcome, NoStr, props.sourceId, props.book,
             props.chapter, Undefined, props.page, hadiths, count, strip,
             failed)
  IN  IF sourcesFail
      THEN shown("error", <<>>, 0, FALSE, {"query"})
      ELSE IF result.status = "error"
      THEN shown("error", <<>>, 0, FALSE, {"query"})
      ELSE IF Len(result.hadiths) = 0
      THEN shown("empty", <<>>, result.totalCount, FALSE, {})
      ELSE shown("list", result.hadiths, result.totalCount,
                 Ceil(result.totalCount, ViewLimit) > 1, {})

\* ------------------------------------------------------- remote service
\* An HTTP exchange with the ranking service: a network failure, or a
\* response with a status code and a JSON body.
NetworkFailure == [arrived |-> FALSE, status |-> 0, hadiths |-> <<>>, total |-> 0]
Response(status, hadiths, total) ==
  [arrived |-> TRUE, status |-> status, hadiths |-> hadiths, total |-> total]

\* response.ok
ResponseOk(resp) == resp.arrived /\ resp.status >= 200 /\ resp.status <= 299

RECURSIVE Reverse(_)
Reverse(rows) ==
  IF Len(rows) = 0 THEN <<>> ELSE Reverse(Tail(rows)) \o <<Head(rows)>>

\* The ranked lists the service may hold for a query over the store.
Rankings(table) == {<<>>, table, Reverse(table)}

\* GET /api/v1/search/?query&page&limit: the page of a ranked list with its
\* total, a request error for a page that is not a positive integer, a
\* server error, or no answer at all.
RemoteSearchResponses(table, page, limit) ==
  {NetworkFailure, Response(500, <<>>, 0)}
  \cup (IF page.t = "num" /\ page.n >= 1
        THEN {Response(200, LimitOffset(ranked, limit, Offset(page.n, limit)),
                       Len(ranked)) : ranked \in Rankings(table)}
        ELSE {Response(422, <<>>, 0)})

\* searchHadithsByVector: the JSON body, or an Error for a failed fetch or a
\* response that is not ok.
searchHadithsByVector(resp) ==
  IF ResponseOk(resp)
  THEN [status |-> "ok", hadiths |-> resp.hadiths, totalCount |-> resp.total]
  ELSE Thrown("Failed to search hadiths by vector similarity")

\* GET /api/v1/compare/similar-hadiths/{id}?page&limit: 404 for an id the
\* service does not know, else the page of the ranked neighbours.
RemoteSimilarResponses(table, hadithId, page, limit) ==
  {NetworkFailure, Response(500, <<>>, 0)}
  \cup (IF ~\E i \in DOMAIN table : table[i].id = hadithId
        THEN {Response(404, <<>>, 0)}
        ELSE IF page.t = "num" /\ page.n >= 1
        THEN {Response(200, LimitOffset(ranked, limit, Offset(page.n, limit)),
                       Len(ranked)) :
                ranked \in {SelectSeq(r, LAMBDA row : row.id # hadithId) :
                              r \in Rankings(table)}}
        ELSE {Response(422, <<>>, 0)})

\* findSimilarHadiths: the JSON body { hadiths, total_count } or an Error.
findSimilarHadiths(resp) ==
  IF ResponseOk(resp)
  THEN [status |-> "ok", hadiths |-> resp.hadiths, total_count |-> resp.total]
  ELSE Thrown("Failed to find similar hadiths")

\* getHadithById: the row with that id, or null when there is none or the
\* store call failed.
Null == [found |-> FALSE, row |-> Row(0, 0, 0, 0)]

getHadithById(table, id, storeFails) ==
  IF storeFails \/ ~\E i \in DOMAIN table : table[i].id = id
  THEN Null
  ELSE [found |-> TRUE,
        row |-> table[CHOOSE i \in DOMAIN table : table[i].id = id]]

\* ----------------------------------------------------------- search view
\* SearchPage: the props parsed from searchParams
SearchPage(params) ==
  [query |-> IF TruthyStr(params.q) THEN params.q.s ELSE <<>>,
   sourceId |-> ParseOptionalInt(params.source),
   page |-> ParsePage(params.page)]

\* Faulty variant: the service's total reported for a filtered page.
SearchResults_serviceTotal(props, sourcesFail, resp) ==
  LET result == searchHadithsByVector(resp)
      kept == IF TruthyNum(props.sourceId)
              THEN SelectSeq(result.hadiths,
                             LAMBDA h : h.source_id = props.sourceId.n)
              ELSE result.hadiths
      shown(outcome, hadiths, total, strip, failed) ==
        View("/search", outcome, Str(props.query), props.sourceId, Undefined,
             Undefined, Undefined, props.page, hadiths, total, strip, failed)
  IN  IF sourcesFail
      THEN shown("error", <<>>, 0, FALSE, {"query"})
      ELSE IF result.status = "error"
      THEN shown("error", <<>>, 0, FALSE, {"searchHadithsByVector"})
      ELSE IF Len(kept) = 0
      THEN shown("empty", <<>>, result.totalCount, FALSE, {})
      ELSE shown("list", kept, result.totalCount,
                 Ceil(result.totalCount, ViewLimit) > 1, {})

\* Faulty variant: the service's total less the records filtered out.
SearchResults_totalLessDropped(props, sourcesFail, resp) ==
  LET result == searchHadithsByVector(resp)
      kept == IF TruthyNum(props.sourceId)
              THEN SelectSeq(result.hadiths,
                             LAMBDA h : h.source_id = props.sourceId.n)
              ELSE result.hadiths
      count == result.totalCount - (Len(result.hadiths) - Len(kept))
      shown(outcome, hadiths, total, strip, failed) ==
        View("/search", outcome, Str(props.query), props.sourceId, Undefined,
             Undefined, Undefined, props.page, hadiths, total, strip, failed)
  IN  IF sourcesFail
      THEN shown("error", <<>>, 0, FALSE, {"query"})
      ELSE IF result.status = "error"
      THEN shown("error", <<>>, 0, FALSE, {"searchHadithsByVector"})
      ELSE IF Len(kept) = 0
      THEN shown("empty", <<>>, count, FALSE, {})
      ELSE shown("list", kept, count, Ceil(count, ViewLimit) > 1, {})

\* SearchResults: getSources and the remote search inside one try block, the
\* optional collection filter on the fetched page, then the rendering.
SearchResults(props, sourcesFail, resp) ==
  LET result == searchHadithsByVector(resp)
      kept == IF TruthyNum(props.sourceId)
              THEN SelectSeq(result.hadiths,
                             LAMBDA h : h.source_id = props.sourceId.n)
              ELSE result.hadiths
      count == IF TruthyNum(props.sourceId) THEN Len(kept)
               ELSE result.totalCount
      shown(outcome, hadiths, total, strip, failed) ==
        View("/search", outcome, Str(props.query), props.sourceId, Undefined,
             Undefined, Undefined, props.page, hadiths, total, strip, failed)
  IN  IF sourcesFail
      THEN shown("error", <<>>, 0, FALSE, {"query"})
      ELSE IF result.status = "error"
      THEN shown("error", <<>>, 0, FALSE, {"searchHadithsByVector"})
      ELSE IF Len(kept) = 0
      THEN shown("empty", <<>>, count, FALSE, {})
      ELSE shown("list", kept, count, Ceil(count, ViewLimit) > 1, {})

\* SearchPage without a query: the "Begin Your Search" prompt.
SearchPrompt(props) ==
  View("/search", "prompt", Str(props.query), props.sourceId, Undefined,
       Undefined, Undefined, props.page, <<>>, 0, FALSE, {})

\* ---------------------------------------------------------- similar view
\* SimilarHadithsPage: the props parsed from searchParams
SimilarHadithsPage(params) ==
  [hadithId |-> ParseOptionalInt(params.hadith),
   page |-> ParsePage(params.page)]

\* SimilarHadithsResults: the anchor lookup, the remote call and getSources
\* inside one try block, then the rendering.
SimilarHadithsResults(table, props, lookupFails, resp, sourcesFail) ==
  LET originalHadith == getHadithById(table, props.hadithId.n, lookupFails)
      result == findSimilarHadiths(resp)
      shown(outcome, hadiths, total, strip, failed) ==
        View("/similar", outcome, NoStr, Undefined, Undefined, Undefined,
             props.hadithId, props.page, hadiths, total, strip, failed)
  IN  IF ~originalHadith.found
      THEN shown("original-missing", <<>>, 0, FALSE,
                 IF lookupFails THEN {"getHadithById"} ELSE {})
      ELSE IF result.status = "error"
      THEN shown("error", <<>>, 0, FALSE, {"findSimilarHadiths"})
      ELSE IF sourcesFail
      THEN shown("error", <<>>, 0, FALSE, {"query"})
      ELSE IF Len(result.hadiths) = 0
      THEN shown("empty", <<>>, result.total_count, FALSE, {})
      ELSE shown("list", result.hadiths, result.total_count,
                 Ceil(result.total_count, ViewLimit) > 1, {})

\* The literal 100 of the badge expression.
Percent == 100

\* A similarity score is a fraction; the model holds it in thousandths, so
\* that a score times 100 has one decimal.
ScoreScale == 10 * Percent

\* Number.prototype.toFixed(1) of x / ScoreScale, in tenths: the nearest
\* tenth; where x lies midway between two tenths the binary value of the
\* number decides, so either may be shown.
toFixed(x) ==
  LET whole == (x * 10) \div ScoreScale
      rest == (x * 10) % ScoreScale
  IN  IF 2 * rest < ScoreScale THEN {whole}
      ELSE IF 2 * rest > ScoreScale THEN {whole + 1}
      ELSE {whole, whole + 1}

\* The badge of a similar-hadith card:
\* (hadith.similarity || 0 * 100).toFixed(1), where the product binds
\* tighter than ||.
SimilarityBadge(score) ==
  LET zero == (0 * Percent) * ScoreScale
  IN  toFixed(IF TruthyNum(score) THEN score.n ELSE zero)

\* SimilarHadithsPage without a hadith id: the "No Hadith Selected" prompt.
SimilarPrompt(props) ==
  View("/similar", "prompt", NoStr, Undefined, Undefined, Undefined,
       props.hadithId, props.page, <<>>, 0, FALSE, {})

\* ------------------------------------------------------------ home view
\* getSources: the rows of table sources, or an Error for a failed store call.
getSources(sourcesFail) ==
  IF sourcesFail THEN Thrown("Failed to fetch sources")
  ELSE [status |-> "ok", sources |-> SourceIds]

\* Home: getSources outside any try block. An Error thrown while the page
\* renders leaves the component and reaches the framework ("uncaught").
Home(sourcesFail) ==
  LET sources == getSources(sourcesFail)
  IN  IF sources.status = "error"
      THEN View("/", "uncaught", NoStr, Undefined, Undefined, Undefined,
                Undefined, Undefined, <<>>, 0, FALSE, {"query"})
      ELSE View("/", "home", NoStr, Undefined, Undefined, Undefined,
                Undefined, Undefined, <<>>, 0, FALSE, {})

\* ---------------------------------------------------------- detail view
\* HadithDetailPage: const id = parseInt(params.id)
HadithDetailPage(params) == [id |-> parseInt(params.id.s)]

\* Faulty variant: the record rendered without the check of its collection.
RecordWithSource_anySource(path, table, id, lookupFails, sourcesFail) ==
  LET lookupThrows == lookupFails \/ id.t # "num"
      hadith == getHadithById(table, id.n, lookupThrows)
      sources == getSources(sourcesFail)
      shown(outcome, hadiths, failed) ==
        View(path, outcome, NoStr, Undefined, Undefined, Undefined, id,
             Undefined, hadiths, 0, FALSE, failed)
  IN  IF ~hadith.found
      THEN shown("not-found", <<>>,
                 IF lookupThrows THEN {"getHadithById"} ELSE {})
      ELSE IF sources.status = "error"
      THEN shown("uncaught", <<>>, {"query"})
      ELSE shown("record", <<hadith.row>>, {})

\* The record and its collection as HadithDetail and HadithCompare fetch
\* them: notFound() for a null record, getSources outside any try block,
\* notFound() for a record whose source_id no collection carries. An id that
\* is NaN reaches the store as a malformed statement, which getHadithById
\* swallows like any other store error.
RecordWithSource(path, table, id, lookupFails, sourcesFail) ==
  LET lookupThrows == lookupFails \/ id.t # "num"
      hadith == getHadithById(table, id.n, lookupThrows)
      sources == getSources(sourcesFail)
      shown(outcome, hadiths, failed) ==
        View(path, outcome, NoStr, Undefined, Undefined, Undefined, id,
             Undefined, hadiths, 0, FALSE, failed)
  IN  IF ~hadith.found
      THEN shown("not-found", <<>>,
                 IF lookupThrows THEN {"getHadithById"} ELSE {})
      ELSE IF sources.status = "error"
      THEN shown("uncaught", <<>>, {"query"})
      ELSE IF hadith.row.source_id \notin sources.sources
      THEN shown("not-found", <<>>, {})
      ELSE shown("record", <<hadith.row>>, {})

HadithDetail(table, id, lookupFails, sourcesFail) ==
  RecordWithSource("/hadiths/[id]", table, id, lookupFails, sourcesFail)

\* --------------------------------------------------------- compare view
\* ComparePage: the props parsed from searchParams
ComparePage(params) == [hadithId |-> ParseOptionalInt(params.hadith)]

\* The id of the placeholder record of the compare view.
PlaceholderId == 9999

\* The findSimilarHadiths of the compare view (placeholder logic): the
\* record and the collections are fetched again; an empty list when the
\* record or its collection is missing or no other collection exists, else
\* one placeholder record of the first other collection.
HadithCompare_findSimilarHadiths(table, hadithId, lookupFails, sourcesFail) ==
  LET sourceHadith == getHadithById(table, hadithId, lookupFails)
      sources == getSources(sourcesFail)
      otherSources == IF sources.status = "ok"
                      THEN sources.sources \ {sourceHadith.row.source_id}
                      ELSE {}
  IN  IF ~sourceHadith.found THEN [status |-> "ok", hadiths |-> <<>>]
      ELSE IF sources.status = "error" THEN sources
      ELSE IF sourceHadith.row.source_id \notin sources.sources
              \/ otherSources = {}
      THEN [status |-> "ok", hadiths |-> <<>>]
      ELSE [status |-> "ok",
            hadiths |-> <<Row(PlaceholderId,
                              CHOOSE o \in otherSources :
                                \A x \in otherSources : o <= x, 1, 1)>>]

\* HadithCompare: the record with its collection, then the similar records,
\* all outside any try block.
HadithCompare(table, hadithId, lookupFails, sourcesFail, againLookupFails, againSourcesFail) ==
  LET first == RecordWithSource("/compare", table, hadithId, lookupFails,
                                sourcesFail)
      similarHadiths ==
        HadithCompare_findSimilarHadiths(table, hadithId.n, againLookupFails,
                                         againSourcesFail)
      shown(outcome, hadiths, failed) ==
        View("/compare", outcome, NoStr, Undefined, Undefined, Undefined,
             hadithId, Undefined, hadiths, 0, FALSE, failed)
  IN  IF first.outcome # "record" THEN first
      ELSE IF againLookupFails
      THEN shown("record", first.hadiths, {"getHadithById"})
      ELSE IF similarHadiths.status = "error"
      THEN shown("uncaught", <<>>, {"query"})
      ELSE shown("record", first.hadiths \o similarHadiths.hadiths, {})

\* ComparePage without a hadith id: the "Find Similar Hadiths" card.
ComparePrompt(props) ==
  View("/compare", "prompt", NoStr, Undefined, Undefined, Undefined,
       props.hadithId, Undefined, <<>>, 0, FALSE, {})

\* String.prototype.trim() over the blanks of the model's alphabet
RECURSIVE DropTrailingBlanks(_)
DropTrailingBlanks(s) ==
  IF Len(s) > 0 /\ s[Len(s)] = " "
  THEN DropTrailingBlanks(SubSeq(s, 1, Len(s) - 1)) ELSE s

\* Faulty variant: the blanks at the end left in place.
Trim_leadingOnly(s) == SkipBlanks(s)

Trim(s) == DropTrailingBlanks(SkipBlanks(s))

\* -------------------------------------------------------- HadithFilters
\* The component state of HadithFilters (useState): the three selections
\* and the option lists of the book and chapter selects.
FilterState(source, book, chapter, bookList, chapterList) ==
  [mounted |-> TRUE, selectedSource |-> source, selectedBook |-> book,
   selectedChapter |-> chapter, books |-> bookList, chapters |-> chapterList]

Unmounted ==
  [mounted |-> FALSE, selectedSource |-> Undefined, selectedBook |-> Undefined,
   selectedChapter |-> Undefined, books |-> <<>>, chapters |-> <<>>]

\* What a closure reads of a selection it captured only to test
\* `selected && !data.includes(selected)`: the value when truthy.
Captured(v) == IF TruthyNum(v) THEN v ELSE Undefined

\* A facet fetch in flight, with the selections its closure captured.
Fetch(kind, source, book, chapter) ==
  [kind |-> kind, source |-> source, book |-> book, chapter |-> chapter]

\* The two effects, run after a state change from `old` to `new` (on mount
\* both run): fetchBooks on a change of [selectedSource, selectedBook],
\* fetchChapters on a change of any selection. An effect that finds its
\* precondition falsy empties its list at once, else it starts a fetch.
AfterEffects(old, new, mount) ==
  LET booksRun == mount \/ old.selectedSource # new.selectedSource
                        \/ old.selectedBook # new.selectedBook
      chaptersRun == booksRun \/ old.selectedChapter # new.selectedChapter
      booksFetch == booksRun /\ TruthyNum(new.selectedSource)
      chaptersFetch == chaptersRun /\ TruthyNum(new.selectedSource)
                                   /\ TruthyNum(new.selectedBook)
  IN  [state |-> [new EXCEPT
                    !.books = IF booksRun /\ ~booksFetch THEN <<>> ELSE @,
                    !.chapters = IF chaptersRun /\ ~chaptersFetch THEN <<>> ELSE @],
       started |->
         (IF booksFetch
          THEN {Fetch("books", new.selectedSource, Captured(new.selectedBook),
                      Undefined)}
          ELSE {})
         \cup
         (IF chaptersFetch
          THEN {Fetch("chapters", new.selectedSource, new.selectedBook,
                      Captured(new.selectedChapter))}
          ELSE {})]

\* value === prop, on numbers: NaN is never equal to anything.
StrictEquals(a, b) == a.t # "NaN" /\ a = b

\* Array.prototype.includes
Includes(values, v) == \E i \in DOMAIN values : values[i] = v.n /\ v.t = "num"

\* The props each view hands to PaginationControls.
StripProps(v) ==
  IF v.path = "/hadiths"
  THEN PaginationProps(v.page, v.totalPages, v.sourceId, v.book, v.chapter,
                       NoStr, Undefined, NoBaseUrl)
  ELSE IF v.path = "/search"
  THEN PaginationProps(v.page, v.totalPages, v.sourceId, Undefined, Undefined,
                       v.query, Undefined, NoBaseUrl)
  ELSE PaginationProps(v.page, v.totalPages, Undefined, Undefined, Undefined,
                       NoStr, Undefined,
                       BaseUrl(Url("/similar",
                                   ParamSet(NoParams, "hadith",
                                            NumberToString(v.hadithId)))))

\* ------------------------------------------------------ session: machine
\* Tables large enough for several pages of ten: runs of equal rows.
LongRun == ViewLimit + 1

Rows(n, s, b, c) == [i \in 1..n |-> [source_id |-> s, book |-> b, chapter |-> c]]

\* A source_id that no row of table sources carries (schema.ts declares no
\* foreign key from hadiths.source_id to sources.id).
UnknownSource == 3

\* Run lengths of the rows (1,1,1), (1,1,2), (1,0,1), (2,1,1) and
\* (UnknownSource,1,1): an empty store, and one where collection 1 fills two
\* pages, collection 2 one, and the last row belongs to no collection.
RunShapes == {<<0, 0, 0, 0, 0>>, <<LongRun, 1, 1, 1, 1>>}

ViewTables ==
  {WithIds(Rows(n[1], 1, 1, 1) \o Rows(n[2], 1, 1, 2) \o Rows(n[3], 1, 0, 1)
           \o Rows(n[4], 2, 1, 1) \o Rows(n[5], UnknownSource, 1, 1)) :
     n \in RunShapes}

\* The id of the row that belongs to no collection, in the store that has it.
StrayId == LongRun + 4

\* Query-string values a visitor may arrive with.
SourceTexts == {NoStr, Str(<<"0">>), Str(<<"1">>), Str(<<"x">>)}
PageTexts == {NoStr, Str(<<"0">>), Str(<<"-", "1">>), Str(<<"2">>), Str(<<"x">>)}
QueryTexts == {NoStr, Str(<<>>), Str(<<"a">>), Str(<<" ", "a">>)}
HadithTexts == {NoStr, Str(<<"0">>), Str(<<"1">>), Str(<<"1", "2">>),
                Str(<<"9", "9">>), Str(<<"x">>)}

\* The browse URLs a visitor may arrive with, as <<source, book, chapter,
\* page>>: the nested filters of collection 1, a zero and a non-numeric
\* value, filters without their parent, a page past the last one and a
\* page before the first.
BrowseQueries ==
  {<<NoStr, NoStr, NoStr, NoStr>>,
   <<Str(<<"1">>), NoStr, NoStr, NoStr>>,
   <<Str(<<"1">>), Str(<<"1">>), NoStr, NoStr>>,
   <<Str(<<"1">>), Str(<<"1">>), Str(<<"1">>), NoStr>>,
   <<Str(<<"0">>), NoStr, NoStr, NoStr>>,
   <<Str(<<"1">>), Str(<<"0">>), NoStr, NoStr>>,
   <<Str(<<"x">>), NoStr, NoStr, NoStr>>,
   <<NoStr, Str(<<"1">>), NoStr, NoStr>>,
   <<Str(<<"1">>), NoStr, Str(<<"1">>), NoStr>>,
   <<Str(<<"1">>), NoStr, NoStr, Str(<<"3">>)>>,
   <<NoStr, NoStr, NoStr, Str(<<"0">>)>>}

BrowseUrls ==
  {Url("/hadiths", [NoParams EXCEPT !.source = t[1], !.book = t[2],
                                    !.chapter = t[3], !.page = t[4]]) :
     t \in BrowseQueries}

SearchUrls ==
  {Url("/search", [NoParams EXCEPT !.q = qt, !.source = s, !.page = pg]) :
     qt \in QueryTexts, s \in SourceTexts, pg \in PageTexts}

\* A search URL that carries a key the search page does not read.
StraySearchUrls ==
  {Url("/search", [NoParams EXCEPT !.q = Str(<<"a">>), !.source = Str(<<"1">>),
                                   !.book = Str(<<"1">>), !.page = Str(<<"2">>)])}

SimilarUrls ==
  {Url("/similar", [NoParams EXCEPT !.hadith = h, !.page = pg]) :
     h \in HadithTexts, pg \in PageTexts}

\* Record ids a visitor may ask the detail and compare views for: zero, the
\* first row, the row of no collection, an id past the store, no number.
RecordTexts ==
  {Str(<<"0">>), Str(<<"1">>), Str(NumberToString(Num(StrayId))),
   Str(<<"9", "9">>), Str(<<"x">>)}

HomeUrl == Url("/", NoParams)

DetailUrls == {Url("/hadiths/[id]", [NoParams EXCEPT !.id = h]) : h \in RecordTexts}

CompareUrls ==
  {Url("/compare", [NoParams EXCEPT !.hadith = h]) :
     h \in RecordTexts \cup {NoStr}}

\* Texts a visitor may type into the search box.
TypedTexts == {<<>>, <<" ">>, <<"a">>, <<" ", "b", " ">>}

\* What the server can render for a URL: the page component parses the
\* params and its results component runs its calls, each of which may fail.
RenderBrowse(table, params) ==
  {HadithBrowser(table, HadithsPage(params), sourcesFail, storeFails) :
     sourcesFail \in BOOLEAN, storeFails \in BOOLEAN}

RenderSearch(table, params) ==
  LET props == SearchPage(params)
  IN  IF Len(props.query) > 0
      THEN {SearchResults(props, sourcesFail, resp) :
              sourcesFail \in BOOLEAN,
              resp \in RemoteSearchResponses(table, props.page, ViewLimit)}
      ELSE {SearchPrompt(props)}

RenderSimilar(table, params) ==
  LET props == SimilarHadithsPage(params)
  IN  IF TruthyNum(props.hadithId)
      THEN {SimilarHadithsResults(table, props, lookupFails, resp, sourcesFail) :
              lookupFails \in BOOLEAN, sourcesFail \in BOOLEAN,
              resp \in RemoteSimilarResponses(table, props.hadithId.n,
                                              props.page, ViewLimit)}
      ELSE {SimilarPrompt(props)}

RenderHome == {Home(sourcesFail) : sourcesFail \in BOOLEAN}

RenderDetail(table, params) ==
  {HadithDetail(table, HadithDetailPage(params).id, lookupFails, sourcesFail) :
     lookupFails \in BOOLEAN, sourcesFail \in BOOLEAN}

RenderCompare(table, params) ==
  LET props == ComparePage(params)
  IN  IF TruthyNum(props.hadithId)
      THEN {HadithCompare(table, props.hadithId, lookupFails, sourcesFail,
                          againLookupFails, againSourcesFail) :
              lookupFails \in BOOLEAN, sourcesFail \in BOOLEAN,
              againLookupFails \in BOOLEAN, againSourcesFail \in BOOLEAN}
      ELSE {ComparePrompt(props)}

Render(table, u) ==
  CASE u.path = "/hadiths" -> RenderBrowse(table, u.params)
    [] u.path = "/search" -> RenderSearch(table, u.params)
    [] u.path = "/similar" -> RenderSimilar(table, u.params)
    [] u.path = "/hadiths/[id]" -> RenderDetail(table, u.params)
    [] u.path = "/compare" -> RenderCompare(table, u.params)
    [] OTHER -> RenderHome

\* SearchForm's effect: setQuery(initialQuery) on mount and whenever the
\* initialQuery prop differs from the one of the previous render.
SyncedQuery(oldView, params, text) ==
  LET initialQuery == SearchPage(params).query
  IN  IF oldView.path # "/search" \/ oldView.query.s # initialQuery
      THEN initialQuery ELSE text

\* router.push(target) / a followed link: the server renders the target and
\* the page on screen is replaced. `text` is the search box as the handler
\* left it.
Navigate(target, by, page, text) ==
  /\ url' = target
  /\ view' \in Render(hadithsTable, target)
  /\ lastNav' = Handler(by, page, TRUE)
  /\ formQuery' = IF target.path = "/search"
                  THEN SyncedQuery(view, target.params, text) ELSE text

\* A visitor arrives at a URL: the page is rendered and its client
\* components are mounted (HadithFilters with the parsed props as its
\* selections, its two effects started).
Init ==
  /\ hadithsTable \in ViewTables
  /\ url \in BrowseUrls \cup SearchUrls \cup StraySearchUrls \cup SimilarUrls
              \cup DetailUrls \cup CompareUrls \cup {HomeUrl}
  /\ view \in Render(hadithsTable, url)
  /\ lastNav = NoNav
  /\ formQuery = IF url.path = "/search" THEN SearchPage(url.params).query
                 ELSE <<>>
  /\ LET props == HadithsPage(url.params)
         eff == AfterEffects(Unmounted,
                             FilterState(props.sourceId, props.book,
                                         props.chapter, <<>>, <<>>),
                             TRUE)
     IN  IF url.path = "/hadiths"
         THEN filters = eff.state /\ pending = eff.started
         ELSE filters = Unmounted /\ pending = {}
  /\ qStep = "idle"
  /\ qCall = NoCall
  /\ qResult = NoResult
  /\ pgStep = "props"
  /\ currentPage = 1
  /\ totalPages = 0
  /\ visiblePages = <<>>
  /\ cardStep = "record"
  /\ similarity = Undefined
  /\ badge = 0

\* A click on one of the strip's links: the router goes to getPageHref(p).
ClickPageLink ==
  /\ view.pagination
  /\ \E p \in PageLinkTargets(view.page.n, view.totalPages) :
       Navigate(getPageHref(StripProps(view), url.path, p), "pageLink", p,
                formQuery)
  /\ UNCHANGED <<filters, pending, hadithsTable, qVars, pgVars, cardVars>>

\* SearchForm: onChange of the search box, setQuery(e.target.value).
TypeQuery ==
  /\ view.path = "/search"
  /\ \E text \in TypedTexts :
       /\ text # formQuery
       /\ formQuery' = text
  /\ UNCHANGED <<url, view, lastNav, filters, pending, hadithsTable, qVars, pgVars, cardVars>>

\* SearchForm.handleSubmit: nothing for a blank query, else a push of
\* pathname?q=<trimmed>&page=1.
handleSubmit ==
  /\ view.path = "/search"
  /\ IF Len(Trim(formQuery)) = 0
     THEN /\ lastNav' = Handler("handleSubmit", 0, FALSE)
          /\ UNCHANGED <<url, view, formQuery>>
     ELSE Navigate(Url(url.path,
                       ParamSet(ParamSet(NoParams, "q", Trim(formQuery)),
                                "page", <<"1">>)),
                   "handleSubmit", 0, formQuery)
  /\ UNCHANGED <<filters, pending, hadithsTable, qVars, pgVars, cardVars>>

\* SearchForm.handleClear (the X button, shown while the box is not empty):
\* setQuery("") and a push of the bare pathname.
handleClear ==
  /\ view.path = "/search"
  /\ Len(formQuery) > 0
  /\ Navigate(Url(url.path, NoParams), "handleClear", 0, <<>>)
  /\ UNCHANGED <<filters, pending, hadithsTable, qVars, pgVars, cardVars>>

\* SearchFilters is mounted when SearchPage has a query.
SearchFiltersMounted == view.path = "/search" /\ view.outcome # "prompt"

\* SearchFilters.selectedSource after its prop effect:
\* sourceId ? sourceId.toString() : "all"
SearchFilters_selectedSource ==
  IF TruthyNum(view.sourceId) THEN NumberToString(view.sourceId)
  ELSE <<"a", "l", "l">>

\* The radio items: "all" and one per collection getSources returned.
RadioValues == {<<"a", "l", "l">>} \cup {NumberToString(Num(id)) : id \in SourceIds}

\* Faulty variant: the params built afresh from the query alone.
SourceFilterParams_fresh(params, value) ==
  LET query == IF TruthyStr(params.q) THEN params.q.s ELSE <<>>
      p2 == ParamSet(NoParams, "q", query)
      p3 == ParamSet(p2, "page", <<"1">>)
  IN  IF value # <<"a", "l", "l">> THEN ParamSet(p3, "source", value) ELSE p3

\* applySourceFilter, lines 51-63: the params it pushes.
SourceFilterParams(params, value) ==
  LET query == IF TruthyStr(params.q) THEN params.q.s ELSE <<>>
      p1 == ParamDelete(params, "source")
      p2 == ParamSet(p1, "q", query)
      p3 == ParamSet(p2, "page", <<"1">>)
  IN  IF value # <<"a", "l", "l">> THEN ParamSet(p3, "source", value) ELSE p3

\* SearchFilters.applySourceFilter(value), called by the radio group when
\* the chosen value changes.
applySourceFilter ==
  /\ SearchFiltersMounted
  /\ \E value \in RadioValues :
       /\ value # SearchFilters_selectedSource
       /\ Navigate(Url(url.path, SourceFilterParams(url.params, value)),
                   "applySourceFilter", 0, formQuery)
  /\ UNCHANGED <<filters, pending, hadithsTable, qVars, pgVars, cardVars>>

\* SearchFilters.clearFilters (the Clear button, disabled while "all" is
\* selected): a push of pathname?q=<encodeURIComponent(query)>.
clearSearchFilters ==
  /\ SearchFiltersMounted
  /\ SearchFilters_selectedSource # <<"a", "l", "l">>
  /\ LET query == IF TruthyStr(url.params.q) THEN url.params.q.s ELSE <<>>
     IN  Navigate(Url(url.path, ParamSet(NoParams, "q", query)),
                  "clearSearchFilters", 0, formQuery)
  /\ UNCHANGED <<filters, pending, hadithsTable, qVars, pgVars, cardVars>>

\* SimilarHadithsFilters.handleRefresh: a push of /similar?hadith=<id>.
handleRefresh ==
  /\ view.path = "/similar"
  /\ view.outcome # "prompt"
  /\ Navigate(Url("/similar",
                  ParamSet(NoParams, "hadith", NumberToString(view.hadithId))),
              "handleRefresh", 0, formQuery)
  /\ UNCHANGED <<filters, pending, hadithsTable, qVars, pgVars, cardVars>>

\* HadithFilters is on screen.
PanelReady == url.path = "/hadiths" /\ filters.mounted

\* value prop of a select: selected?.toString() || ""
SelectValue(v) == IF v.t = "undefined" THEN <<>> ELSE NumberToString(v)

\* A change of the selections by a handler, followed by the effects.
PanelChange(new) ==
  LET eff == AfterEffects(filters, new, FALSE)
  IN  /\ Cardinality(pending \cup eff.started) <= MaxPending
      /\ filters' = eff.state
      /\ pending' = pending \cup eff.started

\* Collection select, onValueChange: one item per collection.
SelectSource ==
  /\ PanelReady
  /\ \E id \in SourceIds :
       LET value == NumberToString(Num(id))
       IN  /\ value # SelectValue(filters.selectedSource)
           /\ PanelChange([filters EXCEPT !.selectedSource = parseInt(value),
                                          !.selectedBook = Undefined,
                                          !.selectedChapter = Undefined])
  /\ UNCHANGED <<url, view, lastNav, formQuery, hadithsTable, qVars, pgVars, cardVars>>

\* Book select, onValueChange: disabled without a collection or options.
SelectBook ==
  /\ PanelReady
  /\ TruthyNum(filters.selectedSource)
  /\ Len(filters.books) > 0
  /\ \E i \in DOMAIN filters.books :
       LET value == NumberToString(Num(filters.books[i]))
       IN  /\ value # SelectValue(filters.selectedBook)
           /\ PanelChange([filters EXCEPT !.selectedBook = parseInt(value),
                                          !.selectedChapter = Undefined])
  /\ UNCHANGED <<url, view, lastNav, formQuery, hadithsTable, qVars, pgVars, cardVars>>

\* Chapter select, onValueChange: disabled without a book or options.
SelectChapter ==
  /\ PanelReady
  /\ TruthyNum(filters.selectedBook)
  /\ Len(filters.chapters) > 0
  /\ \E i \in DOMAIN filters.chapters :
       LET value == NumberToString(Num(filters.chapters[i]))
       IN  /\ value # SelectValue(filters.selectedChapter)
           /\ PanelChange([filters EXCEPT !.selectedChapter = parseInt(value)])
  /\ UNCHANGED <<url, view, lastNav, formQuery, hadithsTable, qVars, pgVars, cardVars>>

\* The answer to a facet fetch arrives: the list is replaced, the captured
\* selection is reset when the list lacks it, and the effects run again on
\* the change. A failed fetch is only logged.
FetchDone ==
  /\ filters.mounted
  /\ \E req \in pending, storeFails \in BOOLEAN :
       LET answer == IF req.kind = "books"
                     THEN getBooksBySource(hadithsTable, req.source.n, storeFails)
                     ELSE getChaptersByBook(hadithsTable, req.source.n,
                                            req.book.n, storeFails)
           captured == IF req.kind = "books" THEN req.book ELSE req.chapter
           reset == TruthyNum(captured) /\ ~Includes(answer.values, captured)
           listed == IF req.kind = "books"
                     THEN [filters EXCEPT !.books = answer.values]
                     ELSE [filters EXCEPT !.chapters = answer.values]
           new == IF ~reset THEN listed
                  ELSE IF req.kind = "books"
                  THEN [listed EXCEPT !.selectedBook = Undefined]
                  ELSE [listed EXCEPT !.selectedChapter = Undefined]
           eff == AfterEffects(filters, new, FALSE)
       IN  IF answer.status = "error"
           THEN /\ pending' = pending \ {req}
                /\ UNCHANGED filters
           ELSE /\ filters' = eff.state
                /\ pending' = (pending \ {req}) \cup eff.started
  /\ UNCHANGED <<url, view, lastNav, formQuery, hadithsTable, qVars, pgVars, cardVars>>

\* Faulty variant of the link built by applyFilters: page never set.
FilterParams_noPage(state) ==
  LET p1 == SetIfDefined(NoParams, "source", state.selectedSource)
      p2 == SetIfDefined(p1, "book", state.selectedBook)
  IN  SetIfDefined(p2, "chapter", state.selectedChapter)

\* applyFilters, lines 237-252: the params it pushes.
FilterParams(state) ==
  LET p1 == SetIfDefined(NoParams, "source", state.selectedSource)
      p2 == SetIfDefined(p1, "book", state.selectedBook)
      p3 == SetIfDefined(p2, "chapter", state.selectedChapter)
  IN  ParamSet(p3, "page", <<"1">>)

\* HadithFilters.applyFilters (the Apply Filters button, disabled while the
\* selections equal the props): a push of pathname?source&book&chapter&page=1.
applyFilters ==
  /\ PanelReady
  /\ LET props == HadithsPage(url.params)
     IN  ~(/\ StrictEquals(filters.selectedSource, props.sourceId)
           /\ StrictEquals(filters.selectedBook, props.book)
           /\ StrictEquals(filters.selectedChapter, props.chapter))
  /\ Navigate(Url(url.path, FilterParams(filters)), "applyFilters", 0, formQuery)
  /\ UNCHANGED <<filters, pending, hadithsTable, qVars, pgVars, cardVars>>

\* HadithFilters.clearFilters (the Clear button, disabled while nothing is
\* selected): the selections are reset and the bare pathname is pushed.
clearFilters ==
  /\ PanelReady
  /\ ~(/\ ~TruthyNum(filters.selectedSource)
       /\ ~TruthyNum(filters.selectedBook)
       /\ ~TruthyNum(filters.selectedChapter))
  /\ PanelChange([filters EXCEPT !.selectedSource = Undefined,
                                 !.selectedBook = Undefined,
                                 !.selectedChapter = Undefined])
  /\ Navigate(Url(url.path, NoParams), "clearFilters", 0, formQuery)
  /\ UNCHANGED <<hadithsTable, qVars, pgVars, cardVars>>

Next ==
  \/ ClickPageLink
  \/ TypeQuery
  \/ handleSubmit
  \/ handleClear
  \/ applySourceFilter
  \/ clearSearchFilters
  \/ handleRefresh
  \/ SelectSource
  \/ SelectBook
  \/ SelectChapter
  \/ FetchDone
  \/ applyFilters
  \/ clearFilters

Spec == Init /\ [][Next]_vars

\* ------------------------------------------- pagination strip: machine
InitPages ==
  /\ pgStep = "props"
  /\ totalPages \in 0..MaxTotal
  /\ currentPage \in 1..Max(totalPages, 1)
  /\ visiblePages = <<>>
  /\ hadithsTable = <<>>
  /\ qStep = "idle"
  /\ qCall = NoCall
  /\ qResult = NoResult
  /\ url = Url("/", NoParams)
  /\ view = NoView
  /\ lastNav = NoNav
  /\ formQuery = <<>>
  /\ filters = Unmounted
  /\ pending = {}
  /\ cardStep = "record"
  /\ similarity = Undefined
  /\ badge = 0

\* The component body runs: const visiblePages = getVisiblePages();
RenderPagination ==
  /\ pgStep = "props"
  /\ visiblePages' = getVisiblePages(currentPage, totalPages)
  /\ pgStep' = "rendered"
  /\ UNCHANGED <<currentPage, totalPages>>
  /\ UNCHANGED <<hadithsTable, qVars, navVars, cardVars>>

\* The parent re-renders the component with new props.
ReceiveProps ==
  /\ pgStep = "rendered"
  /\ \E t \in 0..MaxTotal : \E c \in 1..Max(t, 1) :
       /\ totalPages' = t
       /\ currentPage' = c
  /\ visiblePages' = <<>>
  /\ pgStep' = "props"
  /\ UNCHANGED <<hadithsTable, qVars, navVars, cardVars>>

NextPages == RenderPagination \/ ReceiveProps

SpecPages == InitPages /\ [][NextPages]_vars

\* ---------------------------------------------- listing queries: machine
InitList ==
  /\ hadithsTable \in SmallTables
  /\ qStep = "idle"
  /\ qCall = NoCall
  /\ qResult = NoResult
  /\ pgStep = "props"
  /\ currentPage = 1
  /\ totalPages = 0
  /\ visiblePages = <<>>
  /\ cardStep = "record"
  /\ similarity = Undefined
  /\ badge = 0
  /\ url = Url("/", NoParams)
  /\ view = NoView
  /\ lastNav = NoNav
  /\ formQuery = <<>>
  /\ filters = Unmounted
  /\ pending = {}

Pages == 0..MaxPage
Limits == 1..MaxLimit

\* Where a store call of the function breaks: nowhere, in the select of the
\* rows, or in the select of the count.
StepFailures == {"none", "rows", "count"}

CallGetHadiths ==
  /\ qStep = "idle"
  /\ \E page \in Pages, limit \in Limits, fails \in StepFailures :
       /\ qCall' = [op |-> "getHadiths", page |-> page, limit |-> limit,
                    fails |-> fails]
       /\ qResult' = getHadiths(hadithsTable, page, limit, fails # "none")
  /\ qStep' = "returned"
  /\ UNCHANGED <<hadithsTable, pgVars, navVars, cardVars>>

CallGetHadithsBySource ==
  /\ qStep = "idle"
  /\ \E sourceId \in SourceIds, page \in Pages, limit \in Limits,
        fails \in StepFailures :
       /\ qCall' = [op |-> "getHadithsBySource", sourceId |-> sourceId,
                    page |-> page, limit |-> limit, fails |-> fails]
       /\ qResult' = getHadithsBySource(hadithsTable, sourceId, page, limit,
                                        fails # "none")
  /\ qStep' = "returned"
  /\ UNCHANGED <<hadithsTable, pgVars, navVars, cardVars>>

CallGetHadithsByBook ==
  /\ qStep = "idle"
  /\ \E sourceId \in SourceIds, book \in BookNumbers, page \in Pages,
        limit \in Limits, fails \in StepFailures :
       /\ qCall' = [op |-> "getHadithsByBook", sourceId |-> sourceId,
                    book |-> book, page |-> page, limit |-> limit,
                    fails |-> fails]
       /\ qResult' = getHadithsByBook(hadithsTable, sourceId, book, page,
                                      limit, fails # "none")
  /\ qStep' = "returned"
  /\ UNCHANGED <<hadithsTable, pgVars, navVars, cardVars>>

CallGetHadithsByChapter ==
  /\ qStep = "idle"
  /\ \E sourceId \in SourceIds, book \in BookNumbers,
        chapter \in ChapterNumbers, page \in Pages, limit \in Limits,
        fails \in StepFailures :
       /\ qCall' = [op |-> "getHadithsByChapter", sourceId |-> sourceId,
                    book |-> book, chapter |-> chapter,
                    page |-> page, limit |-> limit, fails |-> fails]
       /\ qResult' = getHadithsByChapter(hadithsTable, sourceId, book, chapter,
                                         page, limit, fails # "none")
  /\ qStep' = "returned"
  /\ UNCHANGED <<hadithsTable, pgVars, navVars, cardVars>>

CallGetBooksBySource ==
  /\ qStep = "idle"
  /\ \E sourceId \in SourceIds, storeFails \in BOOLEAN :
       /\ qCall' = [op |-> "getBooksBySource", sourceId |-> sourceId,
                    fails |-> IF storeFails THEN "rows" ELSE "none"]
       /\ qResult' = getBooksBySource(hadithsTable, sourceId, storeFails)
  /\ qStep' = "returned"
  /\ UNCHANGED <<hadithsTable, pgVars, navVars, cardVars>>

CallGetChaptersByBook ==
  /\ qStep = "idle"
  /\ \E sourceId \in SourceIds, book \in BookNumbers, storeFails \in BOOLEAN :
       /\ qCall' = [op |-> "getChaptersByBook", sourceId |-> sourceId,
                    book |-> book,
                    fails |-> IF storeFails THEN "rows" ELSE "none"]
       /\ qResult' = getChaptersByBook(hadithsTable, sourceId, book, storeFails)
  /\ qStep' = "returned"
  /\ UNCHANGED <<hadithsTable, pgVars, navVars, cardVars>>

\* The ids a caller may ask for: those of the rows the store can hold and
\* one past them.
LookupIds == 1..(MaxRows + 1)

CallGetHadithById ==
  /\ qStep = "idle"
  /\ \E id \in LookupIds, storeFails \in BOOLEAN :
       /\ qCall' = [op |-> "getHadithById", id |-> id,
                    fails |-> IF storeFails THEN "rows" ELSE "none"]
       /\ qResult' = getHadithById(hadithsTable, id, storeFails)
  /\ qStep' = "returned"
  /\ UNCHANGED <<hadithsTable, pgVars, navVars, cardVars>>

CallFindSimilarHadiths ==
  /\ qStep = "idle"
  /\ \E hadithId \in LookupIds, page \in 1..MaxPage, limit \in Limits :
       \E resp \in RemoteSimilarResponses(hadithsTable, hadithId, Num(page),
                                          limit) :
         /\ qCall' = [op |-> "findSimilarHadiths", hadithId |-> hadithId,
                      page |-> page, limit |-> limit, response |-> resp]
         /\ qResult' = findSimilarHadiths(resp)
  /\ qStep' = "returned"
  /\ UNCHANGED <<hadithsTable, pgVars, navVars, cardVars>>

\* The caller has consumed the result (or caught the Error); the stateless
\* access layer is ready for the next call.
CallerDone ==
  /\ qStep = "returned"
  /\ qStep' = "idle"
  /\ qCall' = NoCall
  /\ qResult' = NoResult
  /\ UNCHANGED <<hadithsTable, pgVars, navVars, cardVars>>

NextList ==
  \/ CallGetHadiths
  \/ CallGetHadithsBySource
  \/ CallGetHadithsByBook
  \/ CallGetHadithsByChapter
  \/ CallGetBooksBySource
  \/ CallGetChaptersByBook
  \/ CallGetHadithById
  \/ CallFindSimilarHadiths
  \/ CallerDone

SpecList == InitList /\ [][NextList]_vars

\* ======================================================================
\* Properties of the pagination strip (checked under SpecPages)
\* ======================================================================
Rendered == pgStep = "rendered"

PageNumbers == {visiblePages[i].page : i \in {j \in DOMAIN visiblePages : ~visiblePages[j].ellipsis}}

NoPageOutside ==
  \A i \in DOMAIN visiblePages :
    ~visiblePages[i].ellipsis =>
       (visiblePages[i].page >= 1 /\ visiblePages[i].page <= totalPages)

\* C1 (as stated): for all total >= 0 and 1 <= current <= max(total,1), the
\* rendered sequence contains no page number outside [1, total].
C1_NoPageOutsideRange_AllTotals == Rendered => NoPageOutside

\* C1 (amended): for all total >= 1 and 1 <= current <= total, the rendered
\* sequence contains no page number outside [1, total]; for total = 0 the
\* sequence is [1].
C1_NoPageOutsideRange ==
  Rendered =>
    /\ (totalPages >= 1 => NoPageOutside)
    /\ (totalPages = 0 => visiblePages = <<PageEntry(1)>>)

C1_Witness ==
  Rendered /\ totalPages >= 5 /\ currentPage = totalPages /\ Len(visiblePages) >= 4

\* C2: for all total >= 0 and 1 <= current <= max(total,1), the rendered
\* sequence never holds two ellipsis markers at adjacent positions.
C2_NoAdjacentEllipses ==
  Rendered =>
    \A i \in 1..(Len(visiblePages) - 1) :
      ~(visiblePages[i].ellipsis /\ visiblePages[i + 1].ellipsis)

C2_Witness ==
  /\ Rendered
  /\ Cardinality({i \in DOMAIN visiblePages : visiblePages[i].ellipsis}) = 2

\* C3: for all total > 1 and 1 <= current <= total, the rendered sequence has
\* page 1 as its first element and page total as its last element.
C3_FirstAndLast ==
  (Rendered /\ totalPages > 1) =>
    /\ visiblePages[1] = PageEntry(1)
    /\ visiblePages[Len(visiblePages)] = PageEntry(totalPages)

C3_Witness == Rendered /\ totalPages = 2 /\ Len(visiblePages) = 2

\* C4: getVisiblePages returns exactly (current=1,total=1) -> [1];
\* (3,10) -> [1,2,3,4,ellipsis,10]; (1,10) -> [1,2,ellipsis,10];
\* (10,10) -> [1,ellipsis,9,10].
C4_Examples ==
  Rendered =>
    /\ (currentPage = 1 /\ totalPages = 1) => visiblePages = <<PageEntry(1)>>
    /\ (currentPage = 3 /\ totalPages = 10) =>
         visiblePages = <<PageEntry(1), PageEntry(2), PageEntry(3), PageEntry(4),
                          Ellipsis, PageEntry(10)>>
    /\ (currentPage = 1 /\ totalPages = 10) =>
         visiblePages = <<PageEntry(1), PageEntry(2), Ellipsis, PageEntry(10)>>
    /\ (currentPage = 10 /\ totalPages = 10) =>
         visiblePages = <<PageEntry(1), Ellipsis, PageEntry(9), PageEntry(10)>>

C4_Witness == Rendered /\ currentPage = 3 /\ totalPages = 10

\* C5: for all total >= 1 and 1 <= current <= total, no page number occurs
\* twice in the rendered sequence: its page numbers are strictly ascending.
C5_NoRepeatedPage ==
  (Rendered /\ totalPages >= 1) =>
    \A i, j \in DOMAIN visiblePages :
      (i < j /\ ~visiblePages[i].ellipsis /\ ~visiblePages[j].ellipsis)
        => visiblePages[i].page < visiblePages[j].page

C5_Witness ==
  Rendered /\ totalPages >= 4 /\ currentPage = totalPages - 1
    /\ Cardinality(PageNumbers) >= 4

\* ======================================================================
\* Properties of the listing queries (checked under SpecList)
\* ======================================================================
\* The functions that return a page of records with a total.
ListingOps == {"getHadiths", "getHadithsBySource", "getHadithsByBook", "getHadithsByChapter"}

Returned == qStep = "returned" /\ qCall.op \in ListingOps /\ qResult.status = "ok"

\* The filter predicate of the call in progress, row by row.
SatisfiesFilter(r) ==
  CASE qCall.op = "getHadiths" -> TRUE
    [] qCall.op = "getHadithsBySource" -> r.source_id = qCall.sourceId
    [] qCall.op = "getHadithsByBook" ->
         r.source_id = qCall.sourceId /\ r.book = qCall.book
    [] qCall.op = "getHadithsByChapter" ->
         r.source_id = qCall.sourceId /\ r.book = qCall.book
           /\ r.chapter = qCall.chapter
    [] OTHER -> FALSE

MatchingPositions == {i \in DOMAIN hadithsTable : SatisfiesFilter(hadithsTable[i])}

\* C6: for every listing query over a fixed store the returned totalCount
\* equals the number of rows satisfying the filter predicate alone, whatever
\* page and limit were asked for.
C6_TotalCountIsFilterCount ==
  Returned => qResult.totalCount = Cardinality(MatchingPositions)

C6_Witness ==
  /\ Returned
  /\ qCall.op = "getHadithsByChapter"
  /\ qCall.page = 2
  /\ qResult.totalCount = 2
  /\ Len(hadithsTable) = 3
  /\ Len(qResult.hadiths) < qResult.totalCount

\* The k-th matching row in the store's scan order.
RECURSIVE NthMatching(_, _)
NthMatching(k, from) ==
  IF from > Len(hadithsTable) THEN Row(0, 0, 0, 0)
  ELSE IF SatisfiesFilter(hadithsTable[from])
       THEN (IF k = 1 THEN hadithsTable[from] ELSE NthMatching(k - 1, from + 1))
       ELSE NthMatching(k, from + 1)

\* C7: for page >= 1 and limit > 0 the returned records number at most limit
\* and are exactly the slice [(page-1)*limit, (page-1)*limit + limit) of the
\* filtered rows in the store's order.
C7_RecordsAreTheSlice ==
  (Returned /\ qCall.page >= 1 /\ qCall.limit > 0) =>
    LET first == (qCall.page - 1) * qCall.limit
        avail == Cardinality(MatchingPositions) - first
        n     == IF avail <= 0 THEN 0
                 ELSE IF avail <= qCall.limit THEN avail ELSE qCall.limit
    IN  /\ Len(qResult.hadiths) <= qCall.limit
        /\ Len(qResult.hadiths) = n
        /\ \A k \in 1..n : qResult.hadiths[k] = NthMatching(first + k, 1)

C7_Witness ==
  /\ Returned
  /\ qCall.op = "getHadithsByBook"
  /\ qCall.page = 2 /\ qCall.limit = 1
  /\ Len(qResult.hadiths) = 1
  /\ qResult.hadiths[1].id = 3
  /\ ~SatisfiesFilter(hadithsTable[2])

\* ======================================================================
\* Properties of the views (checked under Spec)
\* ======================================================================
\* A key of the query string that carries an integer.
IntegerSupplied(v) == v.present /\ Len(v.s) > 0 /\ parseInt(v.s).t = "num"

\* A key that is absent, or carries an integer.
AbsentOrInteger(v) == ~v.present \/ IntegerSupplied(v)

\* The row satisfies every equality filter the URL supplies.
SatisfiesUrlFilters(r) ==
  /\ IntegerSupplied(url.params.source) =>
       r.source_id = parseInt(url.params.source.s).n
  /\ IntegerSupplied(url.params.book) => r.book = parseInt(url.params.book.s).n
  /\ IntegerSupplied(url.params.chapter) =>
       r.chapter = parseInt(url.params.chapter.s).n

BrowseShown ==
  /\ view.path = "/hadiths"
  /\ view.outcome \in {"list", "empty"}

\* chapter comes only with book, and book only with source.
NestingRespected(params) ==
  /\ params.chapter.present => params.book.present
  /\ params.book.present => params.source.present

\* C8: in the browse view, for every combination of integer filter values in
\* the URL (0 included), every record shown satisfies all supplied equality
\* filters together and totalCount counts exactly the rows that do. Stated
\* here for the URLs that respect the nesting of the filters, where the
\* listing contract leaves nothing undefined.
C8_BrowseFiltersConjunctive ==
  (/\ BrowseShown
   /\ NestingRespected(url.params)
   /\ AbsentOrInteger(url.params.source)
   /\ AbsentOrInteger(url.params.book)
   /\ AbsentOrInteger(url.params.chapter)) =>
    /\ \A i \in DOMAIN view.hadiths : SatisfiesUrlFilters(view.hadiths[i])
    /\ view.totalCount =
         Cardinality({i \in DOMAIN hadithsTable :
                        SatisfiesUrlFilters(hadithsTable[i])})

\* The filter values the page component parsed before and after a step
\* agree, and the page it parsed after the step is p.
RoundTrip(before, after, p) ==
  /\ after.path = before.path
  /\ after.query = before.query
  /\ after.sourceId = before.sourceId
  /\ after.book = before.book
  /\ after.chapter = before.chapter
  /\ after.hadithId = before.hadithId
  /\ after.page = Num(p)

\* C9: for any filter state of a view and any page p its strip links to, the
\* URL built by getPageHref(p), parsed by that view's page component, gives
\* the same filter values and page = p.
C9_PageLinkRoundTrip ==
  [][view.pagination =>
       \A p \in PageLinkTargets(view.page.n, view.totalPages) :
         url' = getPageHref(StripProps(view), url.path, p)
           => RoundTrip(view, view', p)]_vars

C9_Witness ==
  /\ lastNav = Handler("pageLink", 2, TRUE)
  /\ url.path = "/hadiths"
  /\ url.params.page = Str(<<"2">>)
  /\ url.params.source = Str(<<"1">>)
  /\ url.params.book = Str(<<"1">>)
  /\ url.params.chapter = Str(<<"1">>)
  /\ view.sourceId = Num(1) /\ view.book = Num(1) /\ view.chapter = Num(1)
  /\ view.page = Num(2)

\* The handlers that change a filter value other than page.
FilterHandlers ==
  {"handleSubmit", "handleClear", "applySourceFilter", "clearSearchFilters",
   "applyFilters", "clearFilters"}

\* The page on screen is the one such a handler navigated to.
FilterChanged == lastNav.by \in FilterHandlers /\ lastNav.pushed

\* C10 (as stated): every UI action that changes a filter value other than
\* page navigates to a URL whose query string carries page=1.
C10_FilterChangeCarriesPageOne ==
  FilterChanged => url.params.page = Str(<<"1">>)

\* C10 (amended): submitting a query, choosing a collection and Apply Filters
\* navigate to a URL that carries page=1; the three clearing actions navigate
\* to a URL without a page key; in every case the page component parses
\* page 1 from the URL.
C10_FilterChangeResetsPage ==
  FilterChanged =>
    /\ lastNav.by \in {"handleSubmit", "applySourceFilter", "applyFilters"}
         => url.params.page = Str(<<"1">>)
    /\ lastNav.by \in {"handleClear", "clearSearchFilters", "clearFilters"}
         => ~url.params.page.present
    /\ view.page = Num(1)

C10_Witness ==
  /\ lastNav = Handler("applyFilters", 0, TRUE)
  /\ url.params.source = Str(<<"2">>)
  /\ url.params.book = Str(<<"1">>)
  /\ url.params.page = Str(<<"1">>)
  /\ view.sourceId = Num(2)
  /\ view.page = Num(1)

\* ======================================================================
\* Properties of the access layer's error reporting (checked under SpecList)
\* ======================================================================
\* The exchanges after which findSimilarHadiths does not return the body.
FailedExchanges ==
  {NetworkFailure} \cup {Response(status, <<>>, 0) : status \in {404, 422, 500}}

SimilarReturned == qStep = "returned" /\ qCall.op = "findSimilarHadiths"

\* C11: when the remote service answers 404, findSimilarHadiths yields an
\* outcome that its caller can tell apart from the outcome of every other
\* failed exchange (another status that is not 2xx, or a network failure).
C11_NotFoundIsDistinguished ==
  (SimilarReturned /\ qCall.response.arrived /\ qCall.response.status = 404) =>
    \A other \in FailedExchanges :
      (~other.arrived \/ other.status # 404) =>
        findSimilarHadiths(other) # qResult

\* ======================================================================
\* Properties of facet enumeration (checked under SpecList)
\* ======================================================================
FacetReturned ==
  /\ qStep = "returned"
  /\ qCall.op \in {"getBooksBySource", "getChaptersByBook"}
  /\ qResult.status = "ok"

\* The distinct values of the facet column over the rows the call matches.
FacetValues ==
  IF qCall.op = "getBooksBySource"
  THEN {hadithsTable[i].book :
          i \in {j \in DOMAIN hadithsTable :
                   hadithsTable[j].source_id = qCall.sourceId}}
  ELSE {hadithsTable[i].chapter :
          i \in {j \in DOMAIN hadithsTable :
                   /\ hadithsTable[j].source_id = qCall.sourceId
                   /\ hadithsTable[j].book = qCall.book}}

\* C12: getBooksBySource and getChaptersByBook return a list without
\* duplicates, in ascending numeric order, whose set of values is exactly the
\* distinct book (chapter) values of the rows matching the filter.
C12_FacetIsSortedDistinctComplete ==
  FacetReturned =>
    LET vals == qResult.values
    IN  /\ \A i, j \in DOMAIN vals : i # j => vals[i] # vals[j]
        /\ \A i, j \in DOMAIN vals : i < j => vals[i] <= vals[j]
        /\ {vals[i] : i \in DOMAIN vals} = FacetValues

C12_Witness ==
  /\ FacetReturned
  /\ qCall.op = "getChaptersByBook"
  /\ Len(hadithsTable) = 3
  /\ \A i \in 1..3 : hadithsTable[i].source_id = qCall.sourceId
                       /\ hadithsTable[i].book = qCall.book
  /\ hadithsTable[1].chapter = 2
  /\ hadithsTable[2].chapter = 1
  /\ hadithsTable[3].chapter = 2
  /\ qResult.values = <<1, 2>>

\* ======================================================================
\* Properties of error handling in the views (checked under Spec)
\* ======================================================================
\* The views that look a record up by id.
LookupViews == {"/hadiths/[id]", "/compare", "/similar"}

\* The views' renderings of "no such record": notFound() in the detail and
\* compare views, the "Could not find the original hadith" alert in the
\* similar view.
NotFoundOutcome == view.outcome \in {"not-found", "original-missing"}

\* The lookup of the view ran without a store error and matched no row.
LookupFoundNoRow ==
  /\ view.path \in LookupViews
  /\ view.outcome # "prompt"
  /\ view.failed = {}
  /\ view.hadithId.t = "num"
  /\ ~\E i \in DOMAIN hadithsTable : hadithsTable[i].id = view.hadithId.n

\* C13: in the detail, compare and similar views a lookup by id that finds
\* zero rows leads to the not-found outcome, and a lookup whose store call
\* failed never leads to that same outcome.
C13_AbsentDistinguishedFromFailed ==
  /\ LookupFoundNoRow => NotFoundOutcome
  /\ (view.path \in LookupViews /\ "getHadithById" \in view.failed)
       => ~NotFoundOutcome

\* C14: in every view (home, browse, search, similar, detail, compare), when
\* an access-layer call made by the view fails, the view ends in its generic
\* "try again later" state, and the error does not leave the view.
C14_FailureEndsInTryAgainLater ==
  view.failed # {} => view.outcome = "error"

\* ======================================================================
\* Properties of failing listing queries (checked under SpecList)
\* ======================================================================
\* A listing call has returned after its select of the rows or its select
\* of the count failed (a negative OFFSET fails the select of the rows).
ListingFailed ==
  /\ qStep = "returned"
  /\ qCall.op \in ListingOps
  /\ \/ qCall.fails # "none"
     \/ ~StoreAccepts(qCall.limit, Offset(qCall.page, qCall.limit))

\* The Error message by which each listing function names itself.
OperationMessage(op) ==
  CASE op = "getHadiths" -> "Failed to fetch hadiths"
    [] op = "getHadithsBySource" -> "Failed to fetch hadiths by source"
    [] op = "getHadithsByBook" -> "Failed to fetch hadiths by book"
    [] op = "getHadithsByChapter" -> "Failed to fetch hadiths by chapter"

\* C15: a listing query never partially returns: when its row-fetch step or
\* its count step fails, the call yields a failure that names the operation,
\* and no result page (no records, no total) reaches the caller.
C15_ListingFailsWhole ==
  ListingFailed =>
    /\ qResult.status = "error"
    /\ qResult.message = OperationMessage(qCall.op)
    /\ DOMAIN qResult \cap {"hadiths", "totalCount"} = {}

C15_Witness ==
  /\ ListingFailed
  /\ qCall.op = "getHadithsByBook"
  /\ qCall.fails = "count"
  /\ qCall.page = 1
  /\ \E i \in DOMAIN hadithsTable : SatisfiesFilter(hadithsTable[i])
  /\ qResult = Thrown("Failed to fetch hadiths by book")

\* ======================================================================
\* Properties of the search view's collection filter (checked under Spec)
\* ======================================================================
\* The search results are on screen for a URL that carries the id of a
\* collection (ids are serial, so never 0; a source of 0 is read as no
\* filter, as in the browse view).
SearchFiltered ==
  /\ view.path = "/search"
  /\ view.outcome \in {"list", "empty"}
  /\ IntegerSupplied(url.params.source)
  /\ parseInt(url.params.source.s).n # 0

StripViews == {"/hadiths", "/search", "/similar"}

\* C17: in the browse, search and similar views the pagination controls are
\* rendered only when the number of pages, ceil(totalCount / limit), is
\* greater than 1.
C17_StripOnlyForSeveralPages ==
  (view.path \in StripViews /\ view.pagination) =>
    Ceil(view.totalCount, ViewLimit) > 1

\* A strip over two pages in the similar view, reached by a page link.
C17_Witness ==
  /\ view.path = "/similar"
  /\ view.pagination
  /\ view.totalCount = LongRun + 3
  /\ view.page = Num(2)
  /\ lastNav.by = "pageLink"

Orphaned(params) ==
  \/ params.book.present /\ ~params.source.present
  \/ params.chapter.present /\ ~params.book.present

\* The query string without its orphaned keys: a book goes with a missing
\* source, a chapter with a missing (or removed) book.
WithoutOrphans(params) ==
  LET keepBook == params.book.present /\ params.source.present
      keepChapter == params.chapter.present /\ keepBook
  IN  [params EXCEPT !.book = IF keepBook THEN params.book ELSE NoStr,
                     !.chapter = IF keepChapter THEN params.chapter ELSE NoStr]

\* C19: for a browse request that supplies chapter without book, or book
\* without source, the result is an error, or exactly the result page of the
\* same request with the orphaned key removed.
C19_OrphanedFilterIgnored ==
  (view.path = "/hadiths" /\ Orphaned(url.params)) =>
    \/ view.outcome = "error"
    \/ \E clean \in RenderBrowse(hadithsTable, WithoutOrphans(url.params)) :
         /\ clean.outcome = view.outcome
         /\ clean.hadiths = view.hadiths
         /\ clean.totalCount = view.totalCount
         /\ clean.page = view.page

\* source=1&chapter=1 lists the first page of all thirteen rows of
\* collection 1, those of chapter 2 and of book 0 counted in.
C19_Witness ==
  /\ view.path = "/hadiths"
  /\ url.params.source = Str(<<"1">>)
  /\ ~url.params.book.present
  /\ url.params.chapter = Str(<<"1">>)
  /\ view.outcome = "list"
  /\ view.chapter = Num(1)
  /\ view.totalCount = LongRun + 2
  /\ Len(view.hadiths) = ViewLimit

\* ======================================================================
\* Properties of the detail and compare views (checked under Spec)
\* ======================================================================
\* HadithDetail or HadithCompare has rendered, its getSources call (if it
\* came to it) answered.
RecordViewRendered ==
  /\ view.path \in {"/hadiths/[id]", "/compare"}
  /\ view.outcome # "prompt"
  /\ "query" \notin view.failed

\* The id the view was asked for is the id of no row.
RecordMissing ==
  \A i \in DOMAIN hadithsTable :
    view.hadithId.t # "num" \/ hadithsTable[i].id # view.hadithId.n

\* The id is that of a row whose source_id is the id of no collection.
RecordStray ==
  \E i \in DOMAIN hadithsTable :
    /\ view.hadithId = Num(hadithsTable[i].id)
    /\ hadithsTable[i].source_id \notin SourceIds

C21_MiddlePagesAreTheWindow ==
  (Rendered /\ totalPages >= 3) =>
    \A p \in 2..(totalPages - 1) :
      p \in PageNumbers <=> (p >= currentPage - 1 /\ p <= currentPage + 1)

C21_Witness ==
  /\ Rendered
  /\ totalPages >= 7
  /\ currentPage = 4
  /\ {3, 4, 5} \subseteq PageNumbers
  /\ 2 \notin PageNumbers
  /\ 6 \notin PageNumbers

\* Positions i < j hold two successive listed page numbers: both are pages
\* and only ellipsis markers stand between them.
Successive(i, j) ==
  /\ i < j
  /\ ~visiblePages[i].ellipsis
  /\ ~visiblePages[j].ellipsis
  /\ \A k \in (i + 1)..(j - 1) : visiblePages[k].ellipsis

\* C22: for all total >= 1 and 1 <= current <= total, exactly one ellipsis
\* marker stands between two successive listed page numbers that differ by
\* more than 1, none between two that differ by exactly 1, and no ellipsis
\* is first or last.
C22_OneEllipsisPerGap ==
  (Rendered /\ totalPages >= 1) =>
    /\ ~visiblePages[1].ellipsis
    /\ ~visiblePages[Len(visiblePages)].ellipsis
    /\ \A i, j \in DOMAIN visiblePages :
         Successive(i, j) =>
           LET gap == visiblePages[j].page - visiblePages[i].page
           IN  /\ gap > 1 => j - i - 1 = 1
               /\ gap = 1 => j - i - 1 = 0

\* Current page 3: page 2 abuts page 1, so only the trailing gap is marked.
C22_Witness ==
  /\ Rendered
  /\ currentPage = 3
  /\ totalPages >= 6
  /\ visiblePages[2] = PageEntry(2)
  /\ visiblePages[5] = Ellipsis
  /\ Len(visiblePages) = 6

\* ======================================================================
\* Properties of the browse filter panel (checked under Spec)
\* ======================================================================
\* C23: the panel keeps the nesting of the filters: from a URL that carries
\* chapter only with book and book only with source, the URL that Apply
\* Filters emits carries chapter only with book and book only with source.
C23_ApplyKeepsNesting ==
  [][(/\ ~Orphaned(url.params)
      /\ lastNav' = Handler("applyFilters", 0, TRUE)
      /\ url' = Url(url.path, FilterParams(filters)))
       => ~Orphaned(url'.params)]_vars

\* The options the book select should offer for a panel state.
BooksOfSelection(state) ==
  IF TruthyNum(state.selectedSource)
  THEN getBooksBySource(hadithsTable, state.selectedSource.n, FALSE).values
  ELSE <<>>

\* The options the chapter select should offer for a panel state.
ChaptersOfSelection(state) ==
  IF TruthyNum(state.selectedSource) /\ TruthyNum(state.selectedBook)
  THEN getChaptersByBook(hadithsTable, state.selectedSource.n,
                         state.selectedBook.n, FALSE).values
  ELSE <<>>

\* C24: in the browse filter panel, whatever the interleaving of selection
\* changes and answers to the facet fetches, once no fetch is in flight the
\* displayed book (chapter) options are those of the selected collection
\* (and book): the answer that ends the last fetch in flight never leaves
\* in a list the options of an earlier selection.
C24_AnswersMatchSelection ==
  [][pending' = {} =>
       /\ filters'.books # filters.books
            => filters'.books = BooksOfSelection(filters')
       /\ filters'.chapters # filters.chapters
            => filters'.chapters = ChaptersOfSelection(filters')]_vars

\* ======================================================================
\* Properties of the pages of a listing query (checked under SpecList)
\* ======================================================================
\* The listing call in progress, asked again for another page of the same
\* store, filter and limit.
SamePageOf(page) ==
  CASE qCall.op = "getHadiths" ->
         getHadiths(hadithsTable, page, qCall.limit, FALSE)
    [] qCall.op = "getHadithsBySource" ->
         getHadithsBySource(hadithsTable, qCall.sourceId, page, qCall.limit,
                            FALSE)
    [] qCall.op = "getHadithsByBook" ->
         getHadithsByBook(hadithsTable, qCall.sourceId, qCall.book, page,
                          qCall.limit, FALSE)
    [] qCall.op = "getHadithsByChapter" ->
         getHadithsByChapter(hadithsTable, qCall.sourceId, qCall.book,
                             qCall.chapter, page, qCall.limit, FALSE)

\* The pages on which the row with this id appears.
PagesHolding(id, lastPage) ==
  {p \in 1..lastPage :
     \E k \in DOMAIN SamePageOf(p).hadiths : SamePageOf(p).hadiths[k].id = id}

C26_FilteredSearchHasNoStrip ==
  (view.path = "/search" /\ TruthyNum(view.sourceId)) =>
    /\ view.totalCount <= ViewLimit
    /\ ~view.pagination

\* The service holds more than one page of results, the second page was
\* asked for with the filter on, and the view shows its few records alone.
C26_Witness ==
  /\ view.path = "/search"
  /\ TruthyNum(view.sourceId)
  /\ view.outcome = "list"
  /\ view.page = Num(2)
  /\ Len(hadithsTable) > ViewLimit
  /\ view.totalCount > 0
  /\ view.totalCount <= ViewLimit
  /\ ~view.pagination

\* ======================================================================
\* Properties of the links of the pagination strip (checked under SpecPages)
\* ======================================================================
\* C27: for 1 <= currentPage <= totalPages every link the pagination
\* controls render targets a page in [1, totalPages]: Previous is a link
\* only when currentPage > 1 and then targets currentPage - 1, Next only
\* when currentPage < totalPages and then targets currentPage + 1, and the
\* current page itself is never a link.
C27_LinksStayInRange ==
  (Rendered /\ currentPage >= 1 /\ currentPage <= totalPages) =>
    /\ \A p \in PageLinkTargets(currentPage, totalPages) :
         p >= 1 /\ p <= totalPages /\ p # currentPage
    /\ PreviousTargets(currentPage, totalPages) # {} =>
         /\ currentPage > 1
         /\ PreviousTargets(currentPage, totalPages) = {currentPage - 1}
    /\ NextTargets(currentPage, totalPages) # {} =>
         /\ currentPage < totalPages
         /\ NextTargets(currentPage, totalPages) = {currentPage + 1}
    /\ NumberTargets(currentPage, totalPages) = PageNumbers \ {currentPage}

\* The last of several pages: Previous and the listed pages are links, Next
\* is not.
C27_Witness ==
  /\ Rendered
  /\ totalPages >= 4
  /\ currentPage = totalPages
  /\ PreviousTargets(currentPage, totalPages) = {totalPages - 1}
  /\ NextTargets(currentPage, totalPages) = {}
  /\ NumberTargets(currentPage, totalPages) = {1, totalPages - 1}

\* ======================================================================
\* Properties of the search handlers' pushes (checked under Spec)
\* ======================================================================
\* The step of the handler `by`: the handler is the last that ran and the
\* address, the page on screen or the handler record changed.
HandlerStep(by) ==
  /\ lastNav'.by = by
  /\ <<url, view, lastNav>>' # <<url, view, lastNav>>

\* The keys of a search URL other than q, source and page.
OtherSearchKeys == {"book", "chapter", "hadith", "id"}

\* C28: choosing a collection in the search filters navigates to a URL
\* that keeps q and every other existing key unchanged, has page set to 1,
\* and has source present exactly when the chosen value is not 'all', then
\* equal to it (the chosen value being a radio item other than the selected
\* one).
C28_SourceFilterKeepsTheRest ==
  [][HandlerStep("applySourceFilter") =>
       /\ lastNav'.pushed
       /\ url'.path = url.path
       /\ url'.params.q = url.params.q
       /\ \A k \in OtherSearchKeys : url'.params[k] = url.params[k]
       /\ url'.params.page = Str(<<"1">>)
       /\ LET chosen == IF url'.params.source.present
                        THEN url'.params.source.s ELSE <<"a", "l", "l">>
          IN  /\ chosen \in RadioValues
              /\ chosen # SearchFilters_selectedSource
              /\ url'.params.source.present <=> chosen # <<"a", "l", "l">>]_vars

\* Collection 2 chosen on page 2 of a search that carried a book key.
C28_Witness ==
  /\ lastNav = Handler("applySourceFilter", 0, TRUE)
  /\ url.path = "/search"
  /\ url.params.q = Str(<<"a">>)
  /\ url.params.book = Str(<<"1">>)
  /\ url.params.source = Str(<<"2">>)
  /\ url.params.page = Str(<<"1">>)

\* The text is empty or made of blanks only.
Blank(s) == \A i \in DOMAIN s : s[i] = " "

\* t is s without the blanks around it.
Trimmed(t, s) ==
  /\ Len(t) > 0 => (t[1] # " " /\ t[Len(t)] # " ")
  /\ \E i \in 0..(Len(s) - Len(t)) :
       /\ SubSeq(s, i + 1, i + Len(t)) = t
       /\ Blank(SubSeq(s, 1, i))
       /\ Blank(SubSeq(s, i + Len(t) + 1, Len(s)))

\* C29: submitting the search form with an empty or whitespace-only query
\* performs no navigation and leaves the URL unchanged; a non-blank query
\* navigates to a URL with exactly the keys q (the query trimmed) and
\* page = 1, dropping any previous source filter.
C29_SubmitPushesQueryAlone ==
  [][HandlerStep("handleSubmit") =>
       IF Blank(formQuery)
       THEN ~lastNav'.pushed /\ url' = url /\ view' = view
       ELSE /\ lastNav'.pushed
            /\ url'.path = url.path
            /\ url'.params.q.present
            /\ Trimmed(url'.params.q.s, formQuery)
            /\ url'.params.page = Str(<<"1">>)
            /\ \A k \in DOMAIN url'.params :
                 k \notin {"q", "page"} => ~url'.params[k].present]_vars

\* " b " was typed and submitted: the address is /search?q=b&page=1.
C29_Witness ==
  /\ lastNav = Handler("handleSubmit", 0, TRUE)
  /\ url = Url("/search", [NoParams EXCEPT !.q = Str(<<"b">>),
                                           !.page = Str(<<"1">>)])
  /\ view.query = Str(<<"b">>)

\* ======================================================================
\* The badge of a similar-hadith card: machine
\* ======================================================================
\* The similarity of a record the service returned: absent, or a score
\* from 0 to 1.
Similarities == {Undefined} \cup {Num(k) : k \in 0..ScoreScale}

InitCard ==
  /\ cardStep = "record"
  /\ similarity \in Similarities
  /\ badge = 0
  /\ pgStep = "props"
  /\ currentPage = 1
  /\ totalPages = 0
  /\ visiblePages = <<>>
  /\ hadithsTable = <<>>
  /\ qStep = "idle"
  /\ qCall = NoCall
  /\ qResult = NoResult
  /\ url = Url("/", NoParams)
  /\ view = NoView
  /\ lastNav = NoNav
  /\ formQuery = <<>>
  /\ filters = Unmounted
  /\ pending = {}

\* hadiths.map renders the card of the record with its badge.
RenderCard ==
  /\ cardStep = "record"
  /\ badge' \in SimilarityBadge(similarity)
  /\ cardStep' = "rendered"
  /\ UNCHANGED similarity
  /\ UNCHANGED <<hadithsTable, pgVars, qVars, navVars>>

NextCard == RenderCard

SpecCard == InitCard /\ [][NextCard]_vars

\* ======================================================================
\* Properties of the similarity badge (checked under SpecCard)
\* ======================================================================
\* C30: in the similar-hadiths view the percentage shown next to each
\* result equals the record's similarity score (0 to 1) times 100, and 0
\* when the score is absent. (badge is in tenths of a percent and the score
\* in parts of ScoreScale.)
C30_BadgeIsScoreTimesHundred ==
  cardStep = "rendered" =>
    IF similarity.t = "num"
    THEN badge * ScoreScale = similarity.n * Percent * 10
    ELSE badge = 0

\* The cases in which the badge is the claimed one: no score, or a score
\* of 0.
BadgeOfNoScore ==
  (cardStep = "rendered" /\ ~TruthyNum(similarity)) => badge = 0

====
